---------------------------- MODULE Spec2Model ----------------------------
(***************************************************************************)
(* A model of mlworkflow/datasets.py: the pickled on-disk store            *)
(* (PickledDataset.create / __init__ / query_item), the registry of open   *)
(* handles (_open_pickles, _close, _open_once), pickle_or_load, the batch   *)
(* assembly of Dataset.query, chunkify, the generators Dataset.batches and *)
(* Dataset.balanced_batches, the caching wrappers CachedDataset and        *)
(* CacheLastDataset, AugmentedDataset and FilteredDataset,                 *)
(* TransformedDataset and optimize_query_order; and of the Environment of  *)
(* mlworkflow/environment.py with its cache and its dependency graph.      *)
(*                                                                         *)
(* A file is a sequence of cells (naturals).  A Python int may exceed the  *)
(* range of TLC's integers (the header, biased by 1 << 65): it is the      *)
(* sequence of its base-256 digits.                                        *)
(***************************************************************************)
EXTENDS Integers, Sequences, FiniteSets, TLC

(***************************************************************************)
(* Bounds of the model.                                                    *)
(***************************************************************************)
\* the number of PickledDataset objects the caller holds at one time
MaxStores == 2
\* the longest key list handed to Dataset.query
MaxQueryLen == 3
\* the longest sequence handed to chunkify and to Dataset.batches
MaxKeys == 4
\* the largest chunk size and batch size
MaxBatch == 4
\* the most key groups handed to Dataset.balanced_batches, and the most
\* keys of one group
MaxGroups == 3
MaxGroup == 4
\* the most calls a caller makes on one caching wrapper
MaxCalls == 4
\* the most accesses (query_item calls and list_keys steps) a caller makes
\* on one augmented dataset
MaxAccesses == 5

Paths == {"a", "b"}

\* payload values: 1, 2, and two objects: the __eq__ of Bad raises an
\* exception, that of Why raises DiffReason
Bad == 9
Why == 8

(***************************************************************************)
(* Python ints of any size: the little-endian sequence of the base-256     *)
(* digits, without leading zero digits (0 is the empty sequence).          *)
(***************************************************************************)
\* the bit of the placeholder and of the bias: 1 << 65
BiasBit == 65

Pow2(i) == 2 ^ i

RECURSIVE IntOf(_)
\* the int of a small non-negative number (a file offset)
IntOf(n) == IF n = 0 THEN <<>> ELSE <<n % 256>> \o IntOf(n \div 256)

RECURSIVE Val(_)
\* the number of an int that fits TLC's integers
Val(x) == IF x = <<>> THEN 0 ELSE x[1] + 256 * Val(Tail(x))

RECURSIVE Norm(_)
Norm(x) == IF x # <<>> /\ x[Len(x)] = 0 THEN Norm(SubSeq(x, 1, Len(x) - 1)) ELSE x

\* 1 << k
ShiftLeft1(k) == [i \in 1..((k \div 8) + 1) |->
                     IF i = (k \div 8) + 1 THEN Pow2(k % 8) ELSE 0]

Digit(x, i) == IF i <= Len(x) THEN x[i] ELSE 0

RECURSIVE XorDigit(_, _)
XorDigit(a, b) == IF a = 0 THEN b
                  ELSE IF b = 0 THEN a
                  ELSE ((a + b) % 2) + 2 * XorDigit(a \div 2, b \div 2)

\* a ^ b
Xor(a, b) ==
    LET n == IF Len(a) > Len(b) THEN Len(a) ELSE Len(b)
    IN Norm([i \in 1..n |-> XorDigit(Digit(a, i), Digit(b, i))])

RECURSIVE DigitBits(_)
DigitBits(d) == IF d = 0 THEN 0 ELSE 1 + DigitBits(d \div 2)

\* int.bit_length()
BitLength(x) == IF x = <<>> THEN 0 ELSE 8 * (Len(x) - 1) + DigitBits(x[Len(x)])

\* the n little-endian bytes of the int
ToBytes(x, n) == [i \in 1..n |-> Digit(x, i)]

(***************************************************************************)
(* Pickler.dump and Unpickler.load.  Each pickle also carries a protocol   *)
(* header, a frame header and a STOP opcode: the same number of cells for  *)
(* every pickle of four cells or more, left out here.                      *)
(***************************************************************************)
BININT1 == 75
BININT2 == 77
BININT == 74
LONG1 == 138
TUPLE == 133
DICT == 125

\* pickle.save_long (protocol >= 2), for a non-negative int
PickleInt(x) ==
    LET bl == BitLength(x)
    IN IF bl <= 8 THEN <<BININT1>> \o ToBytes(x, 1)
       ELSE IF bl <= 16 THEN <<BININT2>> \o ToBytes(x, 2)
       ELSE IF bl <= 31 THEN <<BININT>> \o ToBytes(x, 4)
       ELSE LET n == (bl \div 8) + 1   \* pickle.encode_long
            IN <<LONG1, n>> \o ToBytes(x, n)

\* an item: a tuple of payload values
PickleTuple(t) == <<TUPLE, Len(t)>> \o t

\* a dict, in insertion order: a sequence of <<key, value>> pairs
PickleDict(d) ==
    <<DICT, Len(d)>> \o
    [i \in 1..(2 * Len(d)) |-> d[(i + 1) \div 2][IF i % 2 = 1 THEN 1 ELSE 2]]

NoValue == [st |-> "eof", kind |-> "none", int |-> <<>>, seq |-> <<>>, end |-> 0]

\* Unpickler.load() with the file at offset pos: the object, and the offset
\* after it; "eof" is EOFError, "bad" an UnpicklingError
Load(data, pos) ==
    LET have(n) == pos + n <= Len(data)
        cell(i) == data[pos + i]      \* cell(1) is the opcode
        arg(n0, n) == [i \in 1..n |-> data[pos + n0 + i]]
        int(n) == [st |-> "ok", kind |-> "int", int |-> Norm(arg(1, n)),
                   seq |-> <<>>, end |-> pos + 1 + n]
        short == [NoValue EXCEPT !.end = pos]
    IN IF ~have(1) THEN short
       ELSE IF cell(1) = BININT1 THEN (IF have(2) THEN int(1) ELSE short)
       ELSE IF cell(1) = BININT2 THEN (IF have(3) THEN int(2) ELSE short)
       ELSE IF cell(1) = BININT THEN (IF have(5) THEN int(4) ELSE short)
       ELSE IF cell(1) = LONG1
            THEN IF have(2) /\ have(2 + cell(2))
                 THEN [st |-> "ok", kind |-> "int",
                       int |-> Norm(arg(2, cell(2))),
                       seq |-> <<>>, end |-> pos + 2 + cell(2)]
                 ELSE short
       ELSE IF cell(1) = TUPLE
            THEN IF have(2) /\ have(2 + cell(2))
                 THEN [st |-> "ok", kind |-> "tuple", int |-> <<>>,
                       seq |-> arg(2, cell(2)), end |-> pos + 2 + cell(2)]
                 ELSE short
       ELSE IF cell(1) = DICT
            THEN IF have(2) /\ have(2 + 2 * cell(2))
                 THEN [st |-> "ok", kind |-> "dict", int |-> <<>>,
                       seq |-> arg(2, 2 * cell(2)), end |-> pos + 2 + 2 * cell(2)]
                 ELSE short
       ELSE [NoValue EXCEPT !.st = "bad", !.end = pos]

\* the dict of a loaded "dict" value: its <<key, value>> pairs
DictOf(v) == [i \in 1..(Len(v.seq) \div 2) |-> <<v.seq[2 * i - 1], v.seq[2 * i]>>]

\* file write at offset pos: overwrites, and extends the file where needed
WriteAt(data, pos, cells) ==
    LET n == IF Len(data) > pos + Len(cells) THEN Len(data) ELSE pos + Len(cells)
    IN [i \in 1..n |-> IF i > pos /\ i <= pos + Len(cells) THEN cells[i - pos]
                       ELSE data[i]]

(***************************************************************************)
(* dict operations on a sequence of pairs                                  *)
(***************************************************************************)
DictHas(d, k) == \E i \in 1..Len(d) : d[i][1] = k
DictGet(d, k) == d[CHOOSE i \in 1..Len(d) : d[i][1] = k][2]
\* d[k] = v: a present key keeps its place
DictPut(d, k, v) ==
    IF DictHas(d, k)
    THEN [i \in 1..Len(d) |-> IF d[i][1] = k THEN <<k, v>> ELSE d[i]]
    ELSE Append(d, <<k, v>>)
DictKeys(d) == [i \in 1..Len(d) |-> d[i][1]]
DictValues(d) == [i \in 1..Len(d) |-> d[i][2]]


(***************************************************************************)
(* chunkify(iterable, n), for n > 0: the chunks the generator yields       *)
(***************************************************************************)
\* ret = [None] * n, None written 0
NoneList(n) == [j \in 1..n |-> 0]
\* ret[at] = v, at 0-based
SetItem(ret, at, v) == [j \in 1..Len(ret) |-> IF j = at + 1 THEN v ELSE ret[j]]

\* the last chunk padded: ret yielded whole
LastChunkPadded(ret, i, offset) == ret
\* line 31: ret[:i-offset+1], i the index of the last element (-1 if none)
LastChunk(ret, i, offset) == SubSeq(ret, 1, i - offset + 1)

RECURSIVE ChunkifyFrom(_, _, _, _, _, _)
\* the loop of lines 25-30 from element i (0-based) on, then line 31
ChunkifyFrom(S, n, i, offset, ret, out) ==
    IF i >= Len(S)
    THEN Append(out, LastChunk(ret, Len(S) - 1, offset))
    ELSE IF i - offset = n
         THEN ChunkifyFrom(S, n, i + 1, offset + n,
                           SetItem(NoneList(n), 0, S[i + 1]), Append(out, ret))
         ELSE ChunkifyFrom(S, n, i + 1, offset,
                           SetItem(ret, i - offset, S[i + 1]), out)

chunkify(S, n) == ChunkifyFrom(S, n, 0, 0, NoneList(n), <<>>)

(***************************************************************************)
(* DictDataset: dic is a dict (pairs in insertion order) of key -> item;   *)
(* ctx is the dataset's _context (a dict, possibly empty).                 *)
(***************************************************************************)
DatasetListKeys(dataset) == DictKeys(dataset.dic)
\* DictDataset.query_item raises KeyError for a key the dict lacks
DatasetHas(dataset, key) == DictHas(dataset.dic, key)
DatasetQueryItem(dataset, key) == DictGet(dataset.dic, key)

\* the keys argument: None, or a list
NoKeys == [given |-> FALSE, list |-> <<>>]
KeyList(l) == [given |-> TRUE, list |-> l]
KeysOrListKeys(dataset, keys) ==
    IF keys.given THEN keys.list ELSE DatasetListKeys(dataset)

(***************************************************************************)
(* PickledDataset.create(dataset, file_handler, keys), on a handle opened  *)
(* "wb" (an empty file).                                                   *)
(***************************************************************************)
\* line 397: pickler.dump(1 << 65)
Placeholder == PickleInt(ShiftLeft1(BiasBit))

\* the offset recorded after the item is dumped
IndexEntryLate(pos, cells) == pos + Len(cells)
\* line 402: index[key] = file_handler.tell(), before the item is dumped
IndexEntry(pos, cells) == pos

RECURSIVE WriteItems(_, _, _, _, _)
\* lines 400-405, from key i on; raised when dataset.query_item raises
WriteItems(dataset, keys, i, data, index) ==
    IF i > Len(keys)
    THEN [raised |-> FALSE, data |-> data, index |-> index]
    ELSE LET key == keys[i]
             pos == Len(data)
         IN IF ~DatasetHas(dataset, key)
            THEN [raised |-> TRUE, data |-> data,
                  index |-> DictPut(index, key, pos)]
            ELSE LET cells == PickleTuple(DatasetQueryItem(dataset, key))
                 IN WriteItems(dataset, keys, i + 1, WriteAt(data, pos, cells),
                               DictPut(index, key, IndexEntry(pos, cells)))

\* the index offset written without the bias
HeaderOfRaw(index_location) == index_location
\* line 415: index_location ^= 1 << 65
HeaderOf(index_location) == Xor(index_location, ShiftLeft1(BiasBit))

create(dataset, keys) ==
    LET ks == KeysOrListKeys(dataset, keys)
        w == WriteItems(dataset, ks, 1, WriteAt(<<>>, 0, Placeholder), <<>>)
        index_location == Len(w.data)
        d1 == WriteAt(w.data, index_location, PickleDict(w.index))
        d2 == IF dataset.ctx # <<>>
              THEN WriteAt(d1, Len(d1), PickleDict(dataset.ctx))
              ELSE d1
        header == PickleInt(HeaderOf(IntOf(index_location)))
    IN IF w.raised
       THEN [raised |-> TRUE, data |-> w.data, index |-> w.index,
             index_location |-> 0, placeholder_end |-> Len(Placeholder),
             header_end |-> 0]
       ELSE [raised |-> FALSE, data |-> WriteAt(d2, 0, header),
             index |-> w.index, index_location |-> index_location,
             placeholder_end |-> Len(Placeholder), header_end |-> Len(header)]

(***************************************************************************)
(* PickledDataset.__init__(file_handler, offset_keys) on the file content  *)
(* the handle reads.                                                       *)
(***************************************************************************)
\* lines 427-428: the offset the header decodes to
HeaderDecode(data) == Xor(Load(data, 0).int, ShiftLeft1(BiasBit))

\* lines 437-439 and the class attributes of lines 451 and 461: the methods
\* the instance ends up with (line 439 binds _default_query_item, the
\* class attribute again: _offset_query_item is bound nowhere)
BoundListKeys(offset_keys) ==
    IF offset_keys THEN "_offset_list_keys" ELSE "_default_list_keys"
BoundQueryItem(offset_keys) ==
    IF offset_keys THEN "_default_query_item" ELSE "_default_query_item"

init(data, offset_keys) ==
    LET h == Load(data, 0)
        loc == HeaderDecode(data)
        seekable == h.st = "ok" /\ h.kind = "int" /\ BitLength(loc) <= 31
        ix == Load(data, Val(loc))
        cx == Load(data, ix.end)
        failed == [raised |-> TRUE, index |-> <<>>, context |-> <<>>,
                   pos |-> 0, list_keys |-> BoundListKeys(offset_keys),
                   query_item |-> BoundQueryItem(offset_keys)]
    IN IF ~seekable THEN failed
       ELSE IF ~(ix.st = "ok" /\ ix.kind = "dict") THEN failed
       ELSE IF cx.st = "bad" \/ (cx.st = "ok" /\ cx.kind # "dict") THEN failed
       ELSE [raised |-> FALSE, index |-> DictOf(ix),
             context |-> IF cx.st = "ok" THEN DictOf(cx) ELSE <<>>,
             pos |-> cx.end,
             list_keys |-> BoundListKeys(offset_keys),
             query_item |-> BoundQueryItem(offset_keys)]

\* lines 447-450
list_keys(store) ==
    IF store.list_keys = "_offset_list_keys" THEN DictValues(store.index)
    ELSE DictKeys(store.index)

\* the outcome of a query_item: raised is "none", "KeyError", "ValueError"
\* (closed file) or "UnpicklingError" (also EOFError)
Outcome(raised, value, pos) == [raised |-> raised, value |-> value, pos |-> pos]

\* no seek: the handle reads on from its position
SeekNot(store, offset) == store.pos
\* file_handler.seek(offset)
Seek(store, offset) == offset

\* seek, then unpickler.load()
SeekLoad(store, offset) ==
    LET v == Load(store.data, Seek(store, offset))
    IN IF store.closed THEN Outcome("ValueError", NoValue, store.pos)
       ELSE IF v.st # "ok" THEN Outcome("UnpicklingError", NoValue, v.end)
       ELSE Outcome("none", v, v.end)

\* lines 453-457
default_query_item(store, key) ==
    IF ~DictHas(store.index, key) THEN Outcome("KeyError", NoValue, store.pos)
    ELSE SeekLoad(store, DictGet(store.index, key))

\* lines 458-460
offset_query_item(store, key) == SeekLoad(store, key)

query_item(store, key) ==
    IF store.query_item = "_offset_query_item" THEN offset_query_item(store, key)
    ELSE default_query_item(store, key)

(***************************************************************************)
(* Dataset.items_equality (lines 130-151), for items that are tuples of    *)
(* payloads: "true", "false", "raise" when an element's __eq__ raises, or  *)
(* "diff" when it raises DiffReason                                        *)
(***************************************************************************)
RECURSIVE EqFrom(_, _, _)
EqFrom(a, b, i) ==
    IF i > Len(a) THEN "true"
    ELSE IF a[i] = Bad THEN "raise"
    ELSE IF a[i] = Why THEN "diff"
    ELSE IF b[i] = Bad THEN "raise"
    ELSE IF b[i] = Why THEN "diff"
    ELSE IF a[i] # b[i] THEN "false"
    ELSE EqFrom(a, b, i + 1)

items_equality(a, b) == IF Len(a) # Len(b) THEN "false" ELSE EqFrom(a, b, 1)

(***************************************************************************)
(* The state: the file system, the PickledDataset objects the caller       *)
(* holds (each with its file handle), and the registry _open_pickles.      *)
(***************************************************************************)
VARIABLES
    fs,            \* path -> [exists, data]
    stores,        \* slot -> PickledDataset (with its handle), or NoStore
    open_pickles,  \* path -> the slot of the tracked handle, 0 for none
    written,       \* history: path -> what create recorded for the file
    last           \* history: the last operation and its outcome

storeVars == <<fs, stores, open_pickles, written, last>>

Slots == 1..MaxStores

NoFile == [exists |-> FALSE, data |-> <<>>]
NoWritten == [dic |-> <<>>, keys |-> <<>>, index_location |-> 0,
              placeholder_end |-> 0, header_end |-> 0]
NoStore == [used |-> FALSE, path |-> "", data |-> <<>>, closed |-> TRUE, pos |-> 0,
            index |-> <<>>, list_keys |-> "", query_item |-> "",
            offset_keys |-> FALSE, tracked |-> FALSE, made |-> NoWritten]
NoLast == [op |-> "none", path |-> "", existed |-> FALSE, overwrite |-> FALSE,
           created |-> FALSE, create_raised |-> FALSE, log |-> <<>>,
           raised |-> "none", warning |-> "none", note |-> FALSE, ret |-> 0,
           key |-> 0, value |-> NoValue]

StoreInit ==
    /\ fs = [p \in Paths |-> NoFile]
    /\ stores = [i \in Slots |-> NoStore]
    /\ open_pickles = [p \in Paths |-> 0]
    /\ written = [p \in Paths |-> NoWritten]
    /\ last = NoLast

\* the program's state as one value
Cur == [fs |-> fs, stores |-> stores, open_pickles |-> open_pickles,
        written |-> written]

HasFreeSlot(st) == \E i \in Slots : ~st[i].used
FreeSlot(st) == CHOOSE i \in Slots : ~st[i].used /\ \A j \in 1..(i - 1) : st[j].used

\* a PickledDataset over the content data of the file at path
NewStore(path, data, o, offset_keys, tracked, made) ==
    [used |-> TRUE, path |-> path, data |-> data, closed |-> FALSE, pos |-> o.pos,
     index |-> o.index, list_keys |-> o.list_keys, query_item |-> o.query_item,
     offset_keys |-> offset_keys, tracked |-> tracked, made |-> made]

\* file.close(): the handle has no content and no position any more
Closed(store) == [store EXCEPT !.closed = TRUE, !.data = <<>>, !.pos = 0]

(***************************************************************************)
(* _close(path) and _open_once(path, ...)                                  *)
(***************************************************************************)
\* lines 486-489: close the handle tracked for the path, if any
close(S, path) ==
    [i \in Slots |-> IF S.open_pickles[path] = i /\ S.stores[i].used
                     THEN Closed(S.stores[i]) ELSE S.stores[i]]

\* _open_once without line 494
OpenOnceNoClose(S, path) == S.stores
\* line 494: what _open_once does to the handles before it opens
OpenOnceClose(S, path) == close(S, path)

(***************************************************************************)
(* pickle_or_load: the staleness check, lines 522-558                      *)
(***************************************************************************)
CheckResult(raised, warning, pos) ==
    [raised |-> raised, warning |-> warning, pos |-> pos]

\* lines 538-543 without the raise: the fault downgraded to a mismatch
CompareFaultDowngraded(pos) == CheckResult("none", "out_of_date", pos)
\* lines 538-543: the warning, and the exception re-raised
CompareFault(pos) == CheckResult("Exception", "could_not_check", pos)

\* a mismatch that writes no warning
MismatchSilent(reason, pos) == CheckResult("none", "none", pos)
\* lines 544-558: the warning, with the reason when there is one
Mismatch(reason, pos) ==
    CheckResult("none", IF reason THEN "out_of_date_reason" ELSE "out_of_date", pos)

RECURSIVE CheckFrom(_, _, _, _)
CheckFrom(dataset, store, chunk, i) ==
    IF i > Len(chunk) THEN CheckResult("none", "none", store.pos)
    ELSE LET k == chunk[i]
             q == query_item(store, k)
             e == items_equality(DatasetQueryItem(dataset, k), q.value.seq)
         IN IF ~DatasetHas(dataset, k)            \* line 527 raises
            THEN CheckResult("KeyError", "none", store.pos)
            ELSE IF q.raised = "KeyError"         \* lines 531-537
            THEN Mismatch(TRUE, q.pos)
            ELSE IF q.raised # "none" THEN CompareFault(q.pos)
            ELSE IF e = "diff"                    \* lines 535-537
            THEN Mismatch(TRUE, q.pos)
            ELSE IF e = "raise" THEN CompareFault(q.pos)
            ELSE IF e = "false" THEN Mismatch(FALSE, q.pos)
            ELSE CheckFrom(dataset, [store EXCEPT !.pos = q.pos], chunk, i + 1)

\* line 524: next(chunkify(keys, check_first_n_items))
FirstChunk(dataset, keys, n) == chunkify(KeysOrListKeys(dataset, keys), n)[1]

(***************************************************************************)
(* pickle_or_load(dataset, path, keys, check_first_n_items, overwrite,     *)
(* before_pickling) from state S, for a path that is a string: the state   *)
(* after it, and what the caller observes (out).                           *)
(***************************************************************************)
\* the existing file removed whatever overwrite is
RemovesFirstAlways(overwrite, exists) == exists
\* line 506 ignored: the existing file is kept
RemovesFirstNever(overwrite, exists) == FALSE
\* line 506
RemovesFirst(overwrite, exists) == overwrite /\ exists

\* lines 517-520 without the os.remove: the partial file stays
AfterFailedCreateKept(partial) == [exists |-> TRUE, data |-> partial]
\* lines 517-520: the partial file is removed
AfterFailedCreate(partial) == NoFile

\* before_pickling called after the creation
CreationLogLate(before_pickling) ==
    <<"open_wb", "create">> \o (IF before_pickling THEN <<"before_pickling">> ELSE <<>>)
\* lines 512-516
CreationLog(before_pickling) ==
    (IF before_pickling THEN <<"before_pickling">> ELSE <<>>) \o <<"open_wb", "create">>

\* what a call gives: the state it leaves and what the caller observes
Gives(S, out) ==
    [fs |-> S.fs, stores |-> S.stores, open_pickles |-> S.open_pickles,
     written |-> S.written, out |-> out]

\* lines 526-559 done: the exception of the check goes to the caller, and
\* the opened dataset and its handle with it; or the dataset is returned
AfterCheck(S, path, call, log, opened, chk) ==
    IF chk.raised # "none"
    THEN Gives([S EXCEPT !.open_pickles[path] = 0],
               [call EXCEPT !.raised = chk.raised, !.warning = chk.warning,
                            !.log = log \o <<"open_rb", "check", "raise">>])
    ELSE Gives([S EXCEPT !.stores[FreeSlot(S.stores)] = [opened EXCEPT !.pos = chk.pos],
                         !.open_pickles[path] = FreeSlot(S.stores)],
               [call EXCEPT !.warning = chk.warning,
                            !.note = chk.warning # "none" /\ call.created,
                            !.ret = FreeSlot(S.stores),
                            !.log = log \o <<"open_rb", "check", "return">>])

\* line 521 done (o is what __init__ has read): lines 522-558
AfterOpen(S, dataset, path, keys, n, call, log, o) ==
    IF o.raised
    THEN Gives([S EXCEPT !.open_pickles[path] = 0],
               [call EXCEPT !.raised = "open",
                            !.log = log \o <<"open_rb", "check", "raise">>])
    ELSE AfterCheck(S, path, call, log,
                    NewStore(path, S.fs[path].data, o, FALSE, TRUE, S.written[path]),
                    CheckFrom(dataset,
                              NewStore(path, S.fs[path].data, o, FALSE, TRUE,
                                       S.written[path]),
                              FirstChunk(dataset, keys, n), 1))

\* line 521, on the file that is at the path
OpenAndCheck(S, dataset, path, keys, n, call, log) ==
    AfterOpen(S, dataset, path, keys, n, call, log, init(S.fs[path].data, FALSE))

\* lines 510-520 done (cr is what create has written): the partial file
\* removed and the exception raised, or the file in place
AfterCreate(S, dataset, path, keys, n, call, log, cr) ==
    IF cr.raised
    THEN Gives([S EXCEPT !.fs[path] = AfterFailedCreate(cr.data),
                         !.open_pickles[path] = 0,
                         !.written[path] = NoWritten],
               [call EXCEPT !.raised = "create", !.create_raised = TRUE,
                            !.log = log \o <<"remove_partial", "raise">>])
    ELSE OpenAndCheck([S EXCEPT !.fs[path] = [exists |-> TRUE, data |-> cr.data],
                                !.written[path] =
                                    [dic |-> dataset.dic,
                                     keys |-> KeysOrListKeys(dataset, keys),
                                     index_location |-> cr.index_location,
                                     placeholder_end |-> cr.placeholder_end,
                                     header_end |-> cr.header_end]],
                      dataset, path, keys, n, call, log)

\* lines 509-521, was_existing settled; S.stores are the handles after the
\* _close of the _open_once of line 515 or of line 521 (the one of line 521
\* after line 515 closes the "wb" handle, which the with block has closed)
CreateOrOpen(S, dataset, path, keys, n, before_pickling, call, log, was_existing) ==
    IF was_existing
    THEN OpenAndCheck(S, dataset, path, keys, n, call, log)
    ELSE AfterCreate(S, dataset, path, keys, n, [call EXCEPT !.created = TRUE],
                     log \o CreationLog(before_pickling), create(dataset, keys))

\* lines 504-509, removes settled: the _close and the os.remove of lines
\* 507-508
RemoveOrKeep(S, dataset, path, keys, n, before_pickling, call, removes) ==
    CreateOrOpen(IF removes
                 THEN [S EXCEPT !.stores = OpenOnceClose([S EXCEPT !.stores =
                                                             close(S, path)], path),
                                !.fs[path] = NoFile]
                 ELSE [S EXCEPT !.stores = OpenOnceClose(S, path)],
                 dataset, path, keys, n, before_pickling, call,
                 IF removes THEN <<"close", "remove">> ELSE <<>>,
                 S.fs[path].exists /\ ~removes)

pickle_or_load(S, dataset, path, keys, n, overwrite, before_pickling) ==
    RemoveOrKeep(S, dataset, path, keys, n, before_pickling,
                 [NoLast EXCEPT !.op = "pickle_or_load", !.path = path,
                                !.existed = S.fs[path].exists,
                                !.overwrite = overwrite],
                 RemovesFirst(overwrite, S.fs[path].exists))

\* the state becomes the one the call leaves
Becomes(r) ==
    /\ fs' = r.fs
    /\ stores' = r.stores
    /\ open_pickles' = r.open_pickles
    /\ written' = r.written
    /\ last' = r.out

PickleOrLoad(dataset, path, keys, n, overwrite, before_pickling) ==
    /\ HasFreeSlot(stores)
    /\ Becomes(pickle_or_load(Cur, dataset, path, keys, n, overwrite, before_pickling))

(***************************************************************************)
(* PickledDataset(path, offset_keys): the file opened by the caller, not   *)
(* through the registry (lines 418-439)                                    *)
(***************************************************************************)
OpenStore(path, offset_keys) ==
    LET o == init(fs[path].data, offset_keys)
    IN /\ HasFreeSlot(stores)
       /\ fs[path].exists
       /\ ~o.raised
       /\ stores' = [stores EXCEPT ![FreeSlot(stores)] =
                        NewStore(path, fs[path].data, o, offset_keys, FALSE,
                                 written[path])]
       /\ last' = [NoLast EXCEPT !.op = "open", !.path = path,
                                 !.ret = FreeSlot(stores)]
       /\ UNCHANGED <<fs, open_pickles, written>>

(***************************************************************************)
(* store.query_item(key) on a store the caller holds                       *)
(***************************************************************************)
QueryItem(i, key) ==
    LET q == query_item(stores[i], key)
    IN /\ stores[i].used
       /\ stores' = [stores EXCEPT ![i].pos = q.pos]
       /\ last' = [NoLast EXCEPT !.op = "query_item", !.path = stores[i].path,
                                 !.ret = i, !.key = key, !.raised = q.raised,
                                 !.value = q.value]
       /\ UNCHANGED <<fs, open_pickles, written>>

(***************************************************************************)
(* The caller drops a store: its handle is finalized (closed), and the     *)
(* WeakValueDictionary _open_pickles loses the entry.                      *)
(***************************************************************************)
Release(i) ==
    /\ stores[i].used
    /\ stores' = [stores EXCEPT ![i] = NoStore]
    /\ open_pickles' = [p \in Paths |-> IF open_pickles[p] = i THEN 0
                                        ELSE open_pickles[p]]
    /\ last' = [NoLast EXCEPT !.op = "release", !.path = stores[i].path, !.ret = i]
    /\ UNCHANGED <<fs, written>>

(***************************************************************************)
(* Dataset.query(keys, wrap), lines 58-81, on a DictDataset.  With wrap    *)
(* the payloads of the one column are the items themselves.                *)
(***************************************************************************)
\* np.array(Xs) of a column: its shape and its elements (a column of
\* tuples of one length is a two-dimensional array; numpy refuses tuples
\* of several lengths)
NpArray(Xs, wrap) ==
    IF wrap /\ \E i, j \in 1..Len(Xs) : Len(Xs[i]) # Len(Xs[j])
    THEN [ok |-> FALSE, shape |-> <<>>, data |-> <<>>]
    ELSE [ok |-> TRUE,
          shape |-> IF wrap THEN <<Len(Xs), Len(Xs[1])>> ELSE <<Len(Xs)>>,
          data |-> Xs]

QueryResult(raised, arrays, calls) ==
    [done |-> TRUE, raised |-> raised, arrays |-> arrays, calls |-> calls]

\* item[j] stored at the position before i
FillColumnBefore(Xs, i, x) == [Xs EXCEPT ![IF i > 1 THEN i - 1 ELSE i] = x]
\* lines 73 and 80: XYs[j][i] = item[j]
FillColumn(Xs, i, x) == [Xs EXCEPT ![i] = x]

RECURSIVE QueryFrom(_, _, _, _, _, _)
\* lines 75-81 from position i (1-based) of keys on
QueryFrom(dataset, keys, wrap, i, XYs, calls) ==
    IF i > Len(keys)
    THEN LET arrays == [j \in 1..Len(XYs) |-> NpArray(XYs[j], wrap)]
         IN IF \E j \in 1..Len(XYs) : ~arrays[j].ok
            THEN QueryResult("ValueError", <<>>, calls)
            ELSE QueryResult("none", arrays, calls)
    ELSE LET key == keys[i]
             got == DatasetQueryItem(dataset, key)
             item == IF wrap THEN <<got>> ELSE got
         IN IF ~DatasetHas(dataset, key)
            THEN QueryResult("KeyError", <<>>, Append(calls, key))
            ELSE IF Len(item) < Len(XYs)
            THEN QueryResult("IndexError", <<>>, Append(calls, key))
            ELSE QueryFrom(dataset, keys, wrap, i + 1,
                           [j \in 1..Len(XYs) |-> FillColumn(XYs[j], i, item[j])],
                           Append(calls, key))

\* the loop taking the keys from the first one again
queryFirstTwice(dataset, keys, wrap) ==
    IF keys = <<>> THEN QueryResult("StopIteration", <<>>, <<>>)
    ELSE IF ~DatasetHas(dataset, keys[1])
    THEN QueryResult("KeyError", <<>>, <<keys[1]>>)
    ELSE QueryFrom(dataset, keys, wrap, 1,
                   [j \in 1..Len(IF wrap THEN <<0>> ELSE DatasetQueryItem(dataset, keys[1])) |->
                       [i \in 1..Len(keys) |-> IF wrap THEN <<>> ELSE 0]],
                   <<keys[1]>>)

query(dataset, keys, wrap) ==
    IF keys = <<>> THEN QueryResult("StopIteration", <<>>, <<>>)   \* line 65
    ELSE IF ~DatasetHas(dataset, keys[1])
    THEN QueryResult("KeyError", <<>>, <<keys[1]>>)                \* line 66
    ELSE LET got == DatasetQueryItem(dataset, keys[1])
             first == IF wrap THEN <<got>> ELSE got
             \* line 71: None is 0 here (<<>> in a column of items)
             XYs == [j \in 1..Len(first) |->
                        [i \in 1..Len(keys) |-> IF wrap THEN <<>> ELSE 0]]
         IN QueryFrom(dataset, keys, wrap, 2,
                      [j \in 1..Len(first) |-> FillColumn(XYs[j], 1, first[j])],
                      <<keys[1]>>)

(***************************************************************************)
(* Dataset.batches and Dataset.balanced_batches, lines 83-108: generators. *)
(* A result is what a caller that drains the generator sees: the batches   *)
(* yielded (each with the key list it was queried from), the exception     *)
(* that ended the iteration, and the query_item calls made.                *)
(***************************************************************************)
GeneratorResult(raised, yielded, calls) ==
    [done |-> TRUE, raised |-> raised, yielded |-> yielded, calls |-> calls]

\* an exception leaving the body of a generator: a StopIteration is
\* RuntimeError where the interpreter has generator_stop (PEP 479, the
\* default from Python 3.7), and without it ends the iteration silently
Leaves(raised, generator_stop) ==
    IF raised # "StopIteration" THEN raised
    ELSE IF generator_stop THEN "RuntimeError" ELSE "none"

Batch(keys, arrays) == [keys |-> keys, arrays |-> arrays]

RECURSIVE BatchesFrom(_, _, _, _, _, _, _)
\* line 89 with the result q of self.query(key_chunk, **kwargs)
BatchesYield(dataset, chunks, wrap, generator_stop, c, yielded, calls, q) ==
    IF q.raised # "none"
    THEN GeneratorResult(Leaves(q.raised, generator_stop), yielded, calls \o q.calls)
    ELSE BatchesFrom(dataset, chunks, wrap, generator_stop, c + 1,
                     Append(yielded, Batch(chunks[c], q.arrays)), calls \o q.calls)

\* the loop of lines 88-89 from chunk c on
BatchesFrom(dataset, chunks, wrap, generator_stop, c, yielded, calls) ==
    IF c > Len(chunks)
    THEN GeneratorResult("none", yielded, calls)
    ELSE BatchesYield(dataset, chunks, wrap, generator_stop, c, yielded, calls,
                      query(dataset, chunks[c], wrap))

\* one query of the whole key list
batchesInOne(dataset, keys, batch_size, wrap, generator_stop) ==
    BatchesFrom(dataset, <<keys>>, wrap, generator_stop, 1, <<>>, <<>>)

batches(dataset, keys, batch_size, wrap, generator_stop) ==
    BatchesFrom(dataset, chunkify(keys, batch_size), wrap, generator_stop,
                1, <<>>, <<>>)

\* an assert that only refuses a sub-batch size of zero
SplitsRoughly(sub_sizes, groups, batch_size) == sub_sizes > 0
\* line 98: assert sub_sizes * len(split_keys) == batch_size
SplitsEvenly(sub_sizes, groups, batch_size) == sub_sizes * groups = batch_size
\* the length of the longest chunk
MaxOf(lengths) == CHOOSE m \in lengths : \A x \in lengths : m >= x

MinOf(lengths) == CHOOSE m \in lengths : \A x \in lengths : m <= x

RECURSIVE SumFrom(_, _, _)
SumFrom(lists, g, acc) ==
    IF g > Len(lists) THEN acc ELSE SumFrom(lists, g + 1, acc \o lists[g])
\* sum(parallel, [])
SumLists(lists) == SumFrom(lists, 1, <<>>)

\* the chunk left as chunkify yielded it
KeptWhole(p, min_length) == p
\* line 105: p[:min_length]
Shortened(p, min_length) ==
    SubSeq(p, 1, IF min_length < Len(p) THEN min_length ELSE Len(p))

\* lines 103-105 on the chunks the zip of line 102 gives at position c
Parallel(batched_keys, c, batch_size, min_length) ==
    [g \in 1..Len(batched_keys) |->
        IF min_length # batch_size THEN Shortened(batched_keys[g][c], min_length)
        ELSE batched_keys[g][c]]

RECURSIVE BalancedFrom(_, _, _, _, _, _, _)
\* lines 106-107 with the result q of self.query(sum(parallel, []))
BalancedYield(dataset, batched_keys, batch_size, generator_stop, c, yielded, calls, key_list, q) ==
    IF q.raised # "none"
    THEN GeneratorResult(Leaves(q.raised, generator_stop), yielded, calls \o q.calls)
    ELSE IF Len(q.arrays) # 2                       \* Xs, Ys = ...
    THEN GeneratorResult("ValueError", yielded, calls \o q.calls)
    ELSE BalancedFrom(dataset, batched_keys, batch_size, generator_stop, c + 1,
                      Append(yielded, Batch(key_list, q.arrays)), calls \o q.calls)

BalancedQuery(dataset, batched_keys, batch_size, generator_stop, c, yielded, calls, key_list) ==
    BalancedYield(dataset, batched_keys, batch_size, generator_stop, c, yielded,
                  calls, key_list, query(dataset, key_list, FALSE))

\* the loop of lines 102-107 from position c of the zip on: the zip ends
\* with the first group that has no chunk left
BalancedFrom(dataset, batched_keys, batch_size, generator_stop, c, yielded, calls) ==
    IF \E g \in 1..Len(batched_keys) : c > Len(batched_keys[g])
    THEN GeneratorResult("none", yielded, calls)
    ELSE BalancedQuery(dataset, batched_keys, batch_size, generator_stop, c,
                       yielded, calls,
                       SumLists(Parallel(batched_keys, c, batch_size,
                           MinOf({Len(batched_keys[g][c]) :
                                     g \in 1..Len(batched_keys)}))))

\* lines 98-107 with sub_sizes of line 97
BalancedSplit(dataset, split_keys, batch_size, generator_stop, sub_sizes) ==
    IF ~SplitsEvenly(sub_sizes, Len(split_keys), batch_size)
    THEN GeneratorResult("AssertionError", <<>>, <<>>)
    ELSE BalancedFrom(dataset,
                      [g \in 1..Len(split_keys) |-> chunkify(split_keys[g], sub_sizes)],
                      batch_size, generator_stop, 1, <<>>, <<>>)

balanced_batches(dataset, split_keys, batch_size, generator_stop) ==
    IF Len(split_keys) = 0                           \* line 97: division by zero
    THEN GeneratorResult("ZeroDivisionError", <<>>, <<>>)
    ELSE BalancedSplit(dataset, split_keys, batch_size, generator_stop,
                       batch_size \div Len(split_keys))

(***************************************************************************)
(* CachedDataset, lines 343-369, and CacheLastDataset, lines 251-268, over *)
(* an inner DictDataset.  The calls the wrapper makes on the inner         *)
(* dataset's query_item and on its own after_cache_miss hook are kept in a *)
(* log, in the order they are made.                                        *)
(***************************************************************************)
\* the key None
NoneKey == 0
\* CacheLastDataset.cache: (None, None) is the slot that is not set; its
\* key is None and its item, None, is written <<>>
EmptySlot == [set |-> FALSE, key |-> NoneKey, item |-> <<>>]
Slot(key, item) == [set |-> TRUE, key |-> key, item |-> item]

\* self.dataset.query_item(key)
InnerCall(key) == [kind |-> "query_item", key |-> key, item |-> <<>>, cache |-> EmptySlot]
\* self.after_cache_miss(key, item), and self.cache as the hook finds it
HookCall(key, item, cache) ==
    [kind |-> "after_cache_miss", key |-> key, item |-> item, cache |-> cache]

\* what a call on a wrapper returns or raises, the wrapper after it, and
\* the log after it
CallResult(raised, value, obj, calls) ==
    [raised |-> raised, value |-> value, obj |-> obj, log |-> calls]

\* CachedDataset.__init__, lines 345-351
NewCached ==
    [cache |-> <<>>, list_keys |-> "_unforgotten_list_keys", dataset |-> "inner"]

\* a cache of one entry
RememberLast(cache, key, tup) == <<<<key, tup>>>>
\* line 358: self.cache[key] = tup
Remember(cache, key, tup) == DictPut(cache, key, tup)

\* CachedDataset.query_item, lines 353-359 (an item is a tuple, never None)
CachedQueryItem(self, dataset, calls, key) ==
    IF DictHas(self.cache, key)
    THEN CallResult("none", DictGet(self.cache, key), self, calls)
    ELSE IF self.dataset = "None"                    \* None.query_item
    THEN CallResult("AttributeError", <<>>, self, calls)
    ELSE IF ~DatasetHas(dataset, key)
    THEN CallResult("KeyError", <<>>, self, Append(calls, InnerCall(key)))
    ELSE CallResult("none", DatasetQueryItem(dataset, key),
                    [cache |-> Remember(self.cache, key, DatasetQueryItem(dataset, key)),
                     list_keys |-> self.list_keys, dataset |-> self.dataset],
                    Append(calls, InnerCall(key)))

RECURSIVE FillFrom(_, _, _, _, _)
\* line 366 with the result r of self.query_item(key)
FillNext(dataset, keys, i, r) ==
    IF r.raised # "none" THEN r ELSE FillFrom(r.obj, dataset, r.log, keys, i + 1)

\* the loop of lines 365-366 from the key i of the inner list_keys() on
FillFrom(self, dataset, calls, keys, i) ==
    IF i > Len(keys) THEN CallResult("none", <<>>, self, calls)
    ELSE FillNext(dataset, keys, i, CachedQueryItem(self, dataset, calls, keys[i]))

\* no key queried
FillNothing(self, dataset, calls) == CallResult("none", <<>>, self, calls)
\* lines 365-366
Fill(self, dataset, calls) == FillFrom(self, dataset, calls, DatasetListKeys(dataset), 1)

\* the reference to the inner dataset kept
ForgetKeys(self) ==
    [cache |-> self.cache, list_keys |-> "_cached_keys", dataset |-> self.dataset]
\* lines 367-368: self.list_keys = self._cached_keys; self.dataset = None
Forget(self) ==
    [cache |-> self.cache, list_keys |-> "_cached_keys", dataset |-> "None"]

\* lines 367-369 after the loop
FillThenForget(r) ==
    IF r.raised # "none" THEN r ELSE CallResult("none", <<>>, Forget(r.obj), r.log)

\* CachedDataset.fill_forget, lines 364-369
fill_forget(self, dataset, calls) ==
    IF self.dataset = "None"                         \* None.list_keys
    THEN CallResult("AttributeError", <<>>, self, calls)
    ELSE FillThenForget(Fill(self, dataset, calls))

\* CachedDataset.list_keys: _unforgotten_list_keys (lines 349-350) or
\* _cached_keys (lines 361-362)
CachedListKeys(self, dataset) ==
    IF self.list_keys = "_cached_keys" THEN DictKeys(self.cache)
    ELSE DatasetListKeys(dataset)

\* the hook called before the slot is overwritten
HookFindsOld(old, new) == old
\* lines 266-267: the slot is overwritten, then the hook is called
HookFinds(old, new) == new

\* CacheLastDataset.query_item, lines 262-268
LastQueryItem(self, dataset, calls, key) ==
    IF key = self.key          \* not (key != cached_key), set or not
    THEN CallResult("none", self.item, self, calls)
    ELSE IF ~DatasetHas(dataset, key)
    THEN CallResult("KeyError", <<>>, self, Append(calls, InnerCall(key)))
    ELSE CallResult("none", DatasetQueryItem(dataset, key),
                    Slot(key, DatasetQueryItem(dataset, key)),
                    calls \o <<InnerCall(key),
                               HookCall(key, DatasetQueryItem(dataset, key),
                                        HookFinds(self, Slot(key, DatasetQueryItem(dataset, key))))>>)

(***************************************************************************)
(* AugmentedDataset, lines 271-320, and FilteredDataset, lines 323-340,    *)
(* over an inner DictDataset.  A dataset of kind "permuting" is the        *)
(* PermutingDataset of the doctest (lines 275-278): the root key k gives   *)
(* the derived keys (k, 0) and (k, 1).  The key None is written NoneKey.   *)
(***************************************************************************)
\* root_item[::-1]
Reverse(item) == [j \in 1..Len(item) |-> item[Len(item) + 1 - j]]

\* what a predicate returns: a bool, or another object of some truthiness
Bool(b) == [bool |-> TRUE, truthy |-> b]
Object(b) == [bool |-> FALSE, truthy |-> b]

\* the predicates of the model: "odd" returns the bool key % 2 == 1,
\* "rest" returns the int key % 2, "big" returns the bool item[0] > 1
Predicate(name, key, item) ==
    IF name = "odd" THEN Bool(key % 2 = 1)
    ELSE IF name = "rest" THEN Object(key % 2 = 1)
    ELSE Bool(item[1] > 1)

\* bool(x) == y
IsTruthy(x, y) == x.truthy = y
\* x is y, of a predicate's result x and a bool y
Is(x, y) == x.bool /\ x.truthy = y

\* what augment yields, or the exception it raises
Augmented(raised, items) == [raised |-> raised, items |-> items]

\* every item kept
KeepsAll(self, key, item, truth_value) == Augmented("none", <<<<key, item>>>>)
\* FilteredDataset.augment, lines 329-337, with the predicate's result
FilteredAugment(self, key, item, truth_value) ==
    IF Is(truth_value, self.keep_positive)
    THEN Augmented("none", <<<<key, item>>>>)
    ELSE IF Is(truth_value, ~self.keep_positive)
    THEN Augmented("none", <<>>)
    ELSE Augmented("AssertionError", <<>>)

\* dict(self.augment(root_key, root_item))
augment(self, root_key, root_item) ==
    IF self.kind = "permuting"
    THEN Augmented("none", <<<<<<root_key, 0>>, root_item>>,
                             <<<<root_key, 1>>, Reverse(root_item)>>>>)
    ELSE FilteredAugment(self, root_key, root_item,
                         Predicate(self.predicate, root_key, root_item))

\* root_key(key): line 312 (key[0]), and line 340 for a FilteredDataset
RootKey(self, key) == IF self.kind = "permuting" THEN key[1] ELSE key

\* self.cache: (None, None) after __init__ (line 290), then
\* (root_key, new_items)
NoCache == [root |-> NoneKey, none |-> TRUE, items |-> <<>>]
Cache(root_key, new_items) == [root |-> root_key, none |-> FALSE, items |-> new_items]

\* AugmentedDataset.__init__ / FilteredDataset.__init__
NewAugmented(kind, predicate, keep_positive) ==
    [kind |-> kind, predicate |-> predicate, keep_positive |-> keep_positive,
     cache |-> NoCache]

AugmentCall(key) == [kind |-> "augment", key |-> key, item |-> <<>>, cache |-> EmptySlot]

\* what _augment returns (the items, or None) or raises, the dataset and
\* the log after it
AugResult(raised, none, items, self, calls) ==
    [raised |-> raised, none |-> none, items |-> items, obj |-> self, log |-> calls]

SetCache(self, cache) ==
    [kind |-> self.kind, predicate |-> self.predicate,
     keep_positive |-> self.keep_positive, cache |-> cache]

\* lines 303-304 with the result a of self.augment(root_key, root_item)
AugmentStore(self, calls, root_key, a) ==
    IF a.raised # "none"
    THEN AugResult(a.raised, FALSE, <<>>, self, calls)
    ELSE AugResult("none", FALSE, a.items, SetCache(self, Cache(root_key, a.items)), calls)

\* the cache never taken
Refetches(cache, root_key) == FALSE
\* line 301: not (self.cache[0] != root_key)
Caches(cache, root_key) == cache.root = root_key

\* AugmentedDataset._augment, lines 300-305
Augment(self, dataset, calls, root_key) ==
    IF Caches(self.cache, root_key)
    THEN AugResult("none", self.cache.none, self.cache.items, self, calls)
    ELSE IF ~DatasetHas(dataset, root_key)
    THEN AugResult("KeyError", FALSE, <<>>, self, Append(calls, InnerCall(root_key)))
    ELSE AugmentStore(self, calls \o <<InnerCall(root_key), AugmentCall(root_key)>>,
                      root_key,
                      augment(self, root_key, DatasetQueryItem(dataset, root_key)))

\* line 316 with the result r of self._augment(root_key)
AugLookup(key, r) ==
    IF r.raised # "none" THEN CallResult(r.raised, <<>>, r.obj, r.log)
    ELSE IF r.none THEN CallResult("TypeError", <<>>, r.obj, r.log)   \* None[key]
    ELSE IF ~DictHas(r.items, key) THEN CallResult("KeyError", <<>>, r.obj, r.log)
    ELSE CallResult("none", DictGet(r.items, key), r.obj, r.log)

\* AugmentedDataset.query_item, lines 314-316
AugQueryItem(self, dataset, calls, key) ==
    AugLookup(key, Augment(self, dataset, calls, RootKey(self, key)))

(***************************************************************************)
(* AugmentedDataset.list_keys, lines 307-309: a generator.  It holds the   *)
(* inner list of root keys, the position r of the root it is at, the dict  *)
(* whose keys it is yielding from, and the position j in that dict.        *)
(***************************************************************************)
NoGenerator ==
    [state |-> "none", roots |-> <<>>, r |-> 0, view |-> <<>>, j |-> 0,
     yielded |-> <<>>]
\* list_keys() called: nothing of the body has run
NewGenerator(dataset) ==
    [state |-> "created", roots |-> DatasetListKeys(dataset), r |-> 0,
     view |-> <<>>, j |-> 0, yielded |-> <<>>]

\* what next() on the generator gives: a key yielded, StopIteration, or an
\* exception of the body; the generator, the dataset and the log after it
Stepped(raised, g, self, calls) ==
    [raised |-> raised, gen |-> g, obj |-> self, log |-> calls]

GenAt(g, state, r, view, j) ==
    [state |-> state, roots |-> g.roots, r |-> r, view |-> view, j |-> j,
     yielded |-> g.yielded]
GenYield(g, r, view, j) ==
    [state |-> "running", roots |-> g.roots, r |-> r, view |-> view, j |-> j,
     yielded |-> Append(g.yielded, view[j][1])]

RECURSIVE EnterRoot(_, _, _, _, _)
\* line 309 with the result a of self._augment(root_key): yield from its keys
YieldFrom(g, dataset, r, a) ==
    IF a.raised # "none" THEN Stepped(a.raised, GenAt(g, "raised", r, <<>>, 0), a.obj, a.log)
    ELSE IF a.none                                   \* None.keys()
    THEN Stepped("AttributeError", GenAt(g, "raised", r, <<>>, 0), a.obj, a.log)
    ELSE IF a.items = <<>> THEN EnterRoot(g, a.obj, dataset, a.log, r + 1)
    ELSE Stepped("none", GenYield(g, r, a.items, 1), a.obj, a.log)

\* the loop of line 308 at the root r
EnterRoot(g, self, dataset, calls, r) ==
    IF r > Len(g.roots)
    THEN Stepped("StopIteration", GenAt(g, "done", r, <<>>, 0), self, calls)
    ELSE YieldFrom(g, dataset, r, Augment(self, dataset, calls, g.roots[r]))

\* the dict of the cache read again at every step
CacheView(g, self) == self.cache.items
\* line 309: yield from iterates the keys of the dict _augment returned
\* when the root was entered, whatever self.cache has become
HeldView(g, self) == g.view

\* next(generator)
GenNext(g, self, dataset, calls) ==
    IF g.state \in {"done", "raised"}
    THEN Stepped("StopIteration", g, self, calls)
    ELSE IF g.j < Len(HeldView(g, self))
    THEN Stepped("none", GenYield(g, g.r, HeldView(g, self), g.j + 1), self, calls)
    ELSE EnterRoot(g, self, dataset, calls, g.r + 1)

(***************************************************************************)
(* optimize_query_order(dataset) of AugmentedDataset (lines 292-298) and   *)
(* of PickledDataset (lines 463-476): dataset.query is replaced by a       *)
(* function that sorts the caller's list in place and passes it on.        *)
(***************************************************************************)
\* lines 464-469: offset_of_key; KeyError when the index lacks the key
HasOffset(store, key) ==
    store.list_keys = "_offset_list_keys" \/ DictHas(store.index, key)
offset_of_key(store, key) ==
    IF store.list_keys = "_offset_list_keys" THEN key ELSE DictGet(store.index, key)

RECURSIVE Inserted(_, _, _, _)
\* key put into the sorted list sorted, after the keys that do not sort after it
Inserted(sorted, ranks, key, rank) ==
    IF sorted = <<>> \/ ranks[Len(ranks)] <= rank
    THEN [keys |-> Append(sorted, key), ranks |-> Append(ranks, rank)]
    ELSE LET front == Inserted(SubSeq(sorted, 1, Len(sorted) - 1),
                               SubSeq(ranks, 1, Len(ranks) - 1), key, rank)
         IN [keys |-> Append(front.keys, sorted[Len(sorted)]),
             ranks |-> Append(front.ranks, ranks[Len(ranks)])]

RECURSIVE SortFrom(_, _, _, _)
\* list.sort(key=...): a stable sort of keys by ranks
SortFrom(keys, ranks, i, acc) ==
    IF i > Len(keys) THEN acc.keys
    ELSE SortFrom(keys, ranks, i + 1, Inserted(acc.keys, acc.ranks, keys[i], ranks[i]))

Sort(keys, ranks) == SortFrom(keys, ranks, 1, [keys |-> <<>>, ranks |-> <<>>])

\* the outcome of the replaced query, and the caller's list after the call
Optimized(q, keys) ==
    [done |-> TRUE, raised |-> q.raised, arrays |-> q.arrays, calls |-> q.calls,
     keys |-> keys]

\* lines 295-297: keys.sort(); return old_query(keys)
SortedQuery(dataset, keys) ==
    Optimized(query(dataset, Sort(keys, keys), FALSE), Sort(keys, keys))

\* lines 473-475: keys.sort(key=offset_of_key); return old_query(keys).  A
\* key function that raises leaves the list as it was.
OffsetQuery(store, dataset, keys) ==
    IF \E i \in 1..Len(keys) : ~HasOffset(store, keys[i])
    THEN Optimized(QueryResult("KeyError", <<>>, <<>>), keys)
    ELSE LET ranks == [i \in 1..Len(keys) |-> offset_of_key(store, keys[i])]
         IN Optimized(query(dataset, Sort(keys, ranks), FALSE), Sort(keys, ranks))

(***************************************************************************)
(* TransformedDataset, lines 207-248, over an inner DictDataset.  The      *)
(* transforms of the model: "inc" (item -> (item[0] + 1,) + item[1:]),     *)
(* "swap" (item -> item[::-1]) and the key-aware "addkey"                  *)
(* ((key, item) -> (item[0] + key,) + item[1:]).                           *)
(***************************************************************************)
\* getattr(t, "needs_key", False), or the needs_key given to add_transform
NeedsKey(fn) == fn = "addkey"
\* the pair (t, needs_key) the dataset keeps of a transform
Transform(fn) == [fn |-> fn, needs_key |-> NeedsKey(fn)]

\* transform(*args)
Apply(fn, args) ==
    LET item == args[Len(args)]
    IN IF fn = "inc" THEN SetItem(item, 0, item[1] + 1)
       ELSE IF fn = "swap" THEN Reverse(item)
       ELSE SetItem(item, 0, item[1] + args[1])

\* a call of a transform, as the log keeps it
TransformCall(fn, args) == [kind |-> "transform", fn |-> fn, args |-> args]

\* lines 227-230: the arguments a transform is called with
ArgsOf(t, key, item) == IF t.needs_key THEN <<key, item>> ELSE <<item>>

RECURSIVE TransformFrom(_, _, _, _, _, _)
\* the loop of lines 226-230 from the transform i on
TransformFrom(self, calls, key, item, i, transforms) ==
    IF i > Len(transforms) THEN CallResult("none", item, self, calls)
    ELSE TransformFrom(self,
                       Append(calls, TransformCall(transforms[i].fn,
                                                   ArgsOf(transforms[i], key, item))),
                       key, Apply(transforms[i].fn, ArgsOf(transforms[i], key, item)),
                       i + 1, transforms)

\* TransformedDataset.query_item, lines 224-231
TransformedQueryItem(self, dataset, calls, key) ==
    IF ~DatasetHas(dataset, key)
    THEN CallResult("KeyError", <<>>, self, Append(calls, InnerCall(key)))
    ELSE TransformFrom(self, Append(calls, InnerCall(key)), key,
                       DatasetQueryItem(dataset, key), 1, self.transforms)

\* TransformedDataset.__init__, lines 215-219
NewTransformed(fns) == [transforms |-> [i \in 1..Len(fns) |-> Transform(fns[i])]]

\* the transform put before the others
Prepended(self, fn) == [transforms |-> <<Transform(fn)>> \o self.transforms]
\* line 240: self.transforms.append(item)
Appended(self, fn) == [transforms |-> Append(self.transforms, Transform(fn))]

\* add_transforms, lines 246-248: self.transforms.extend(...)
Extended(self, fns) ==
    [transforms |-> self.transforms \o [i \in 1..Len(fns) |-> Transform(fns[i])]]

(***************************************************************************)
(* Environment (environment.py, lines 370-555): a dict of definitions with *)
(* a cache of the values run has computed and the graph of the names each  *)
(* evaluation has asked for.  The names are "a", "b", "c"; a definition    *)
(* is a plain value (Const), a Ref to a name, or the Exec of the code      *)
(*     _return(<to> if <cond> == 1 else 0)                                 *)
(* whose names are looked up through Exec._Locals.  The name "_env" the    *)
(* cache starts with is left out.                                          *)
(***************************************************************************)
NameSet == {"a", "b", "c"}

Undefined == [kind |-> "none", v |-> 0, to |-> "", cond |-> ""]
Const(v) == [kind |-> "const", v |-> v, to |-> "", cond |-> ""]
Ref(to) == [kind |-> "ref", v |-> 0, to |-> to, cond |-> ""]
Exec(cond, to) == [kind |-> "exec", v |-> 0, to |-> to, cond |-> cond]

\* _no_value, and a value in the cache
NoCached == [set |-> FALSE, value |-> 0]
Cached(value) == [set |-> TRUE, value |-> value]

\* the dict, self.cache, self.requires and self.required_by (a defaultdict
\* without an entry for a name has the empty set for it)
Env(dic, cache, requires, required_by) ==
    [dic |-> dic, cache |-> cache, requires |-> requires, required_by |-> required_by]

\* f[k] = v
Put(f, k, v) == [n \in NameSet |-> IF n = k THEN v ELSE f[n]]

\* Environment.__init__ and clean, lines 400-403 and 493-499
NewEnvironment(dic) ==
    Env(dic, [n \in NameSet |-> NoCached], [n \in NameSet |-> {}],
        [n \in NameSet |-> {}])

\* key in self
Defines(E, key) == E.dic[key].kind # "none"

\* what a call of run gives: the exception or the value, the environment
\* as the call leaves it, and the names whose value the call has computed
RunResult(raised, value, E, evals) ==
    [raised |-> raised, value |-> value, env |-> E, evals |-> evals]

\* lines 444-447: every name on the running stack requires name
Requiring(E, stack, name) ==
    Env(E.dic, E.cache,
        [n \in NameSet |->
            IF \E i \in 1..Len(stack) : stack[i] = n
            THEN E.requires[n] \cup {name} ELSE E.requires[n]],
        Put(E.required_by, name,
            E.required_by[name] \cup {stack[i] : i \in 1..Len(stack)}))

\* line 458: self.cache[name] = value
Store(E, name, value, evals) ==
    RunResult("none", value,
              Env(E.dic, Put(E.cache, name, Cached(value)), E.requires, E.required_by),
              evals)

\* lines 453-458: the value of eval is cached unless eval has raised
Keep(name, r) ==
    IF r.raised # "none" THEN r ELSE Store(r.env, name, r.value, r.evals)

\* lines 345-347: Exec._Locals wraps the exception of env.run
Wrapped(r) ==
    IF r.raised = "none" THEN r ELSE RunResult("Exception", 0, r.env, r.evals)

RECURSIVE EnvironmentRun(_, _, _, _)
RECURSIVE ExecThen(_, _, _)
RECURSIVE Eval(_, _, _, _)
RECURSIVE Lookup(_, _, _, _)

\* the code of the Exec once cond is looked up: <to> is looked up when cond
\* is 1 (lines 337-349: a name the environment lacks is a KeyError of the
\* locals, a NameError of the code, and run is not called for it)
ExecThen(stack, d, c) ==
    IF c.raised # "none" THEN c
    ELSE IF c.value # 1 THEN RunResult("none", 0, c.env, c.evals)
    ELSE IF ~Defines(c.env, d.to) THEN RunResult("NameError", 0, c.env, c.evals)
    ELSE Wrapped(EnvironmentRun(c.env, stack, d.to, c.evals))

\* value.eval(self): Ref.eval (lines 106-107 and 39), Exec.eval (lines
\* 287-300)
Eval(E, stack, d, evals) ==
    IF d.kind = "ref" THEN EnvironmentRun(E, stack, d.to, evals)
    ELSE IF ~Defines(E, d.cond) THEN RunResult("NameError", 0, E, evals)
    ELSE ExecThen(stack, d, Wrapped(EnvironmentRun(E, stack, d.cond, evals)))

\* lines 448-459
Lookup(E, stack, name, evals) ==
    IF E.cache[name].set THEN RunResult("none", E.cache[name].value, E, evals)
    ELSE IF ~Defines(E, name) THEN RunResult("KeyError", 0, E, evals)
    ELSE IF E.dic[name].kind = "const"
    THEN Store(E, name, E.dic[name].v, Append(evals, name))
    ELSE Keep(name, Eval(E, Append(stack, name), E.dic[name], Append(evals, name)))

\* Environment.run(name), lines 441-459, with self.running_stack
EnvironmentRun(E, stack, name, evals) ==
    Lookup(Requiring(E, stack, name), stack, name, evals)

RECURSIVE SeqOf(_)
\* the elements of a set in the order an iteration gives them
SeqOf(S) ==
    IF S = {} THEN <<>>
    ELSE <<CHOOSE x \in S : TRUE>> \o SeqOf(S \ {CHOOSE x \in S : TRUE})

\* lines 527-528: self.required_by[req].discard(name) for the requirements
Discarded(required_by, requirements, name) ==
    [n \in NameSet |->
        IF n \in requirements THEN required_by[n] \ {name} ELSE required_by[n]]

\* nothing is refreshed
NoRefresh(required_by, name) == {}
\* line 530: to_refresh = self.required_by.pop(name, ())
ToRefresh(required_by, name) == required_by[name]

RECURSIVE Clean(_, _)
\* lines 523-531 for the name popped from to_clean
CleanOne(E, to_clean, name) ==
    Clean(Env(E.dic, Put(E.cache, name, NoCached), Put(E.requires, name, {}),
              Put(Discarded(E.required_by, E.requires[name], name), name, {})),
          to_clean \o SeqOf(ToRefresh(Discarded(E.required_by, E.requires[name], name),
                                      name)))

\* Environment._clean(*names), lines 501-531
Clean(E, to_clean) ==
    IF to_clean = <<>> THEN E
    ELSE CleanOne(E, SubSeq(to_clean, 1, Len(to_clean) - 1), to_clean[Len(to_clean)])

\* super().__setitem__(key, value)
Assigned(E, key, value) == Env(Put(E.dic, key, value), E.cache, E.requires, E.required_by)

\* Environment.__setitem__, lines 420-429
EnvSetItem(E, key, value) == Assigned(Clean(E, <<key>>), key, value)

RECURSIVE AssignedAll(_, _, _)
AssignedAll(E, items, i) ==
    IF i > Len(items) THEN E
    ELSE AssignedAll(Assigned(E, items[i][1], items[i][2]), items, i + 1)

\* Environment.update, lines 431-435, items the (key, value) pairs
EnvUpdate(E, items) ==
    AssignedAll(Clean(E, [i \in 1..Len(items) |-> items[i][1]]), items, 1)

\* lines 486 and 490: self.cache.pop(key, None)
CachePopped(E, key) == Env(E.dic, Put(E.cache, key, NoCached), E.requires, E.required_by)

\* Environment.__delitem__, lines 469-487, and Environment.pop(key), lines
\* 489-491: KeyError when the dict lacks the key
EnvDelItem(E, key) ==
    IF ~Defines(E, key) THEN RunResult("KeyError", 0, CachePopped(E, key), <<>>)
    ELSE RunResult("none", 0,
                   Env(Put(E.dic, key, Undefined), Put(E.cache, key, NoCached),
                       E.requires, E.required_by), <<>>)

VARIABLES
    inner,  \* the dataset the wrapper was made over
    trace,    \* the calls made on inner.query_item and on after_cache_miss
    memo,   \* the CachedDataset: [cache, list_keys, dataset]
    slot,   \* the CacheLastDataset's cache
    ret     \* the caller's last call on the wrapper, and what it gave

wrapVars == <<inner, trace, memo, slot, ret>>

VARIABLES
    aug,    \* the AugmentedDataset: [kind, predicate, keep_positive, cache]
    gen,    \* the generator its list_keys() returned
    run,    \* the current run of accesses that concern one root key, and
            \* the run before it
    tds,    \* the TransformedDataset: [transforms]
    environ,  \* the Environment: [dic, cache, requires, required_by]
    ran     \* the caller's last call on the Environment, and what it gave

moreVars == <<aug, gen, run, tds, environ, ran>>
envVars == <<environ, ran>>

VARIABLES
    qin,   \* the arguments of the call: [dataset, keys, wrap] of query;
           \* [op, dataset, keys, split_keys, batch_size, wrap,
           \* generator_stop] of chunkify, batches and balanced_batches
    qout   \* what the call returned or raised

queryVars == <<qin, qout>>
vars == <<fs, stores, open_pickles, written, last, qin, qout,
          inner, trace, memo, slot, ret, aug, gen, run, tds, environ, ran>>

NoDataset == [dic |-> <<>>, ctx |-> <<>>]
NoQuery == [dataset |-> NoDataset, keys |-> <<>>, wrap |-> FALSE]
NoOut == [done |-> FALSE, raised |-> "none", arrays |-> <<>>, calls |-> <<>>]

QueryIdle == qin = NoQuery /\ qout = NoOut

\* the n-th call of the caller, and its outcome
Ret(n, op, key, r) ==
    [n |-> n, op |-> op, key |-> key, raised |-> r.raised, value |-> r.value]
NoRet == [n |-> 0, op |-> "none", key |-> 0, raised |-> "none", value |-> <<>>]

\* no wrapper under study
WrapIdle ==
    /\ inner = NoDataset /\ trace = <<>>
    /\ memo = NewCached /\ slot = EmptySlot /\ ret = NoRet

\* a run of accesses: the root key they concern, the calls of the inner
\* query_item and of augment for that root made in it, and whether a
\* fetch of the root failed in it
NoRun == [any |-> FALSE, root |-> NoneKey, calls |-> 0, augs |-> 0, failed |-> FALSE]
\* the calls of the kind for the key in the log after its first n entries
CallsSince(calls, n, kind, key) ==
    Cardinality({m \in (n + 1)..Len(calls) :
                    calls[m].kind = kind /\ calls[m].key = key})
\* the runs after an access that concerns the root: it continues the
\* current run or ends it; mixed: a query_item was made while an
\* enumeration of list_keys() was in progress, or a fetch failed
RunAfter(h, root, before, after, failed, mixed) ==
    IF h.now.any /\ h.now.root = root
    THEN [now |-> [any |-> TRUE, root |-> root,
                   calls |-> h.now.calls + CallsSince(after, Len(before), "query_item", root),
                   augs |-> h.now.augs + CallsSince(after, Len(before), "augment", root),
                   failed |-> h.now.failed \/ failed],
          done |-> h.done, mixed |-> h.mixed \/ mixed \/ failed]
    ELSE [now |-> [any |-> TRUE, root |-> root,
                   calls |-> CallsSince(after, Len(before), "query_item", root),
                   augs |-> CallsSince(after, Len(before), "augment", root),
                   failed |-> failed],
          done |-> h.now, mixed |-> h.mixed \/ mixed \/ failed]
NoRuns == [now |-> NoRun, done |-> NoRun, mixed |-> FALSE]

\* no augmented dataset under study
\* the caller's call on the Environment and its outcome: the names it was
\* about, and the names whose cached value it has removed
NoRan ==
    [op |-> "none", name |-> "", keys |-> {}, raised |-> "none", value |-> 0,
     evals |-> <<>>, removed |-> {}]
Removed(E, after) == {n \in NameSet : E.cache[n].set /\ ~after.cache[n].set}
Ran(op, name, keys, r) ==
    [op |-> op, name |-> name, keys |-> keys, raised |-> r.raised,
     value |-> r.value, evals |-> r.evals, removed |-> Removed(environ, r.env)]

MoreIdle ==
    /\ aug = NewAugmented("permuting", "odd", TRUE)
    /\ gen = NoGenerator /\ run = NoRuns
    /\ tds = NewTransformed(<<>>)
    /\ environ = NewEnvironment([n \in NameSet |-> Undefined]) /\ ran = NoRan

\* env.run(name)
RunName(name) ==
    /\ environ' = EnvironmentRun(environ, <<>>, name, <<>>).env
    /\ ran' = Ran("run", name, {name}, EnvironmentRun(environ, <<>>, name, <<>>))
    /\ UNCHANGED <<aug, gen, run, tds, wrapVars, storeVars, queryVars>>

\* env[key] = value
SetName(key, value) ==
    /\ environ' = EnvSetItem(environ, key, value)
    /\ ran' = Ran("setitem", key, {key},
                  RunResult("none", 0, EnvSetItem(environ, key, value), <<>>))
    /\ UNCHANGED <<aug, gen, run, tds, wrapVars, storeVars, queryVars>>

\* env.update(items)
UpdateNames(items) ==
    /\ environ' = EnvUpdate(environ, items)
    /\ ran' = Ran("update", "", {items[i][1] : i \in 1..Len(items)},
                  RunResult("none", 0, EnvUpdate(environ, items), <<>>))
    /\ UNCHANGED <<aug, gen, run, tds, wrapVars, storeVars, queryVars>>

\* del env[key]
DelName(key) ==
    /\ environ' = EnvDelItem(environ, key).env
    /\ ran' = Ran("delitem", key, {key}, EnvDelItem(environ, key))
    /\ UNCHANGED <<aug, gen, run, tds, wrapVars, storeVars, queryVars>>

\* env.pop(key)
PopName(key) ==
    /\ environ' = EnvDelItem(environ, key).env
    /\ ran' = Ran("pop", key, {key}, EnvDelItem(environ, key))
    /\ UNCHANGED <<aug, gen, run, tds, wrapVars, storeVars, queryVars>>

\* augmented.query_item(key)
AugQuery(key) ==
    /\ ret.n < MaxAccesses
    /\ LET r == AugQueryItem(aug, inner, trace, key)
       IN /\ aug' = r.obj
          /\ trace' = r.log
          /\ ret' = Ret(ret.n + 1, "query_item", key, r)
          /\ run' = RunAfter(run, RootKey(aug, key), trace, r.log,
                             r.raised # "none" /\ ~Caches(r.obj.cache, RootKey(aug, key)),
                             gen.state = "running")
    /\ UNCHANGED <<gen, tds, inner, memo, slot, storeVars, queryVars, envVars>>

\* g = augmented.list_keys()
AugListKeys ==
    /\ gen.state = "none"
    /\ gen' = NewGenerator(inner)
    /\ UNCHANGED <<aug, run, tds, wrapVars, storeVars, queryVars, envVars>>

\* next(g)
AugListNext ==
    /\ ret.n < MaxAccesses
    /\ gen.state \in {"created", "running"}
    /\ LET s == GenNext(gen, aug, inner, trace)
       IN /\ gen' = s.gen
          /\ aug' = s.obj
          /\ trace' = s.log
          /\ ret' = [n |-> ret.n + 1, op |-> "next", key |-> 0, raised |-> s.raised,
                     value |-> IF s.raised = "none"
                               THEN <<s.gen.yielded[Len(s.gen.yielded)]>> ELSE <<>>]
          /\ run' = IF s.raised = "none"
                    THEN RunAfter(run, RootKey(aug, s.gen.yielded[Len(s.gen.yielded)]),
                                  trace, s.log, FALSE, FALSE)
                    ELSE run
    /\ UNCHANGED <<tds, inner, memo, slot, storeVars, queryVars, envVars>>

\* transformed.query_item(key)
TransformedCall(key) ==
    /\ ret.n < MaxCalls
    /\ LET r == TransformedQueryItem(tds, inner, trace, key)
       IN /\ trace' = r.log
          /\ ret' = Ret(ret.n + 1, "query_item", key, r)
    /\ UNCHANGED <<tds, aug, gen, run, inner, memo, slot, storeVars, queryVars, envVars>>

\* transformed.add_transform(fn), lines 233-244
AddTransform(fn) ==
    /\ ret.n < MaxCalls
    /\ tds' = Appended(tds, fn)
    /\ ret' = [n |-> ret.n + 1, op |-> "add_transform", key |-> 0,
               raised |-> "none", value |-> <<>>]
    /\ UNCHANGED <<trace, aug, gen, run, inner, memo, slot, storeVars, queryVars, envVars>>

\* transformed.add_transforms(fns), lines 246-248
AddTransforms(fns) ==
    /\ ret.n < MaxCalls
    /\ tds' = Extended(tds, fns)
    /\ ret' = [n |-> ret.n + 1, op |-> "add_transforms", key |-> 0,
               raised |-> "none", value |-> <<>>]
    /\ UNCHANGED <<trace, aug, gen, run, inner, memo, slot, storeVars, queryVars, envVars>>

\* cached.query_item(key)
CachedCall(key) ==
    /\ ret.n < MaxCalls
    /\ LET r == CachedQueryItem(memo, inner, trace, key)
       IN /\ memo' = r.obj
          /\ trace' = r.log
          /\ ret' = Ret(ret.n + 1, "query_item", key, r)
    /\ UNCHANGED <<inner, slot, storeVars, queryVars, moreVars>>

\* cached.fill_forget()
CachedFillForget ==
    /\ ret.n < MaxCalls
    /\ LET r == fill_forget(memo, inner, trace)
       IN /\ memo' = r.obj
          /\ trace' = r.log
          /\ ret' = Ret(ret.n + 1, "fill_forget", 0, r)
    /\ UNCHANGED <<inner, slot, storeVars, queryVars, moreVars>>

\* last.query_item(key)
LastCall(key) ==
    /\ ret.n < MaxCalls
    /\ LET r == LastQueryItem(slot, inner, trace, key)
       IN /\ slot' = r.obj
          /\ trace' = r.log
          /\ ret' = Ret(ret.n + 1, "query_item", key, r)
    /\ UNCHANGED <<inner, memo, storeVars, queryVars, moreVars>>

RunQuery ==
    /\ ~qout.done
    /\ qout' = query(qin.dataset, qin.keys, qin.wrap)
    /\ UNCHANGED qin
    /\ UNCHANGED <<storeVars, wrapVars, moreVars>>

\* dataset.query(keys) after optimize_query_order(dataset)
RunOptimized ==
    /\ ~qout.done
    /\ qout' = IF qin.op = "augmented" THEN SortedQuery(qin.dataset, qin.keys)
               ELSE OffsetQuery(qin.store, qin.dataset, qin.keys)
    /\ UNCHANGED qin
    /\ UNCHANGED <<storeVars, wrapVars, moreVars>>

\* list(chunkify(keys, batch_size))
RunChunkify ==
    /\ ~qout.done /\ qin.op = "chunkify"
    /\ qout' = [done |-> TRUE, raised |-> "none",
                chunks |-> chunkify(qin.keys, qin.batch_size)]
    /\ UNCHANGED qin
    /\ UNCHANGED <<storeVars, wrapVars, moreVars>>

\* list(dataset.batches(keys, batch_size))
RunBatches ==
    /\ ~qout.done /\ qin.op = "batches"
    /\ qout' = batches(qin.dataset, qin.keys, qin.batch_size, qin.wrap,
                       qin.generator_stop)
    /\ UNCHANGED qin
    /\ UNCHANGED <<storeVars, wrapVars, moreVars>>

\* list(dataset.balanced_batches(split_keys, batch_size))
RunBalanced ==
    /\ ~qout.done /\ qin.op = "balanced_batches"
    /\ qout' = balanced_batches(qin.dataset, qin.split_keys, qin.batch_size,
                                qin.generator_stop)
    /\ UNCHANGED qin
    /\ UNCHANGED <<storeVars, wrapVars, moreVars>>

(***************************************************************************)
(* The inputs                                                              *)
(***************************************************************************)
\* the dicts with the keys 1..m, inserted in ascending order, the item of
\* key i drawn from items[i]
DictsOf(items) ==
    UNION {{[i \in 1..m |-> <<i, it[i]>>] :
               it \in {f \in [1..m -> UNION {items[i] : i \in 1..Len(items)}] :
                          \A i \in 1..m : f[i] \in items[i]}} :
           m \in 1..Len(items)}

SeqsUpTo(S, n) == UNION {[1..m -> S] : m \in 0..n}

Plain == {<<1>>, <<2, 1>>}

\* the keys a caller passes to query_item: the dataset's keys, and the
\* offsets list_keys() returns in offset mode
CallerKeys(store) == {1, 2} \cup {store.index[j][2] : j \in 1..Len(store.index)}

\* pickle_or_load against files of other or of uncomparable content
ReconcileDatasets ==
    {[dic |-> d, ctx |-> <<>>] :
        d \in {<<<<1, <<1>>>>>>,
               <<<<1, <<1>>>>, <<2, <<1>>>>>>,
               <<<<1, <<1>>>>, <<2, <<Bad>>>>>>,
               <<<<1, <<1>>>>, <<2, <<Why>>>>>>,
               <<<<1, <<2, 1>>>>, <<2, <<1>>>>>>}}
ReconcileKeys == {NoKeys, KeyList(<<1, 2>>)}
ReconcileChecks == {1, 2}
ReconcileArgs ==
    [dataset : ReconcileDatasets, path : {"a"}, keys : ReconcileKeys,
     n : ReconcileChecks, overwrite : BOOLEAN, before_pickling : BOOLEAN]

Call(a) ==
    PickleOrLoad(a.dataset, a.path, a.keys, a.n, a.overwrite, a.before_pickling)
Result(S, a) ==
    pickle_or_load(S, a.dataset, a.path, a.keys, a.n, a.overwrite, a.before_pickling)

Init == StoreInit /\ QueryIdle /\ WrapIdle /\ MoreIdle

Next ==
    \/ \E a \in ReconcileArgs : Call(a) /\ UNCHANGED <<queryVars, wrapVars, moreVars>>
    \/ \E i \in Slots : \E key \in CallerKeys(stores[i]) :
          QueryItem(i, key) /\ UNCHANGED <<queryVars, wrapVars, moreVars>>
    \/ \E i \in Slots : Release(i) /\ UNCHANGED <<queryVars, wrapVars, moreVars>>

Spec == Init /\ [][Next]_vars

\* the layout of the file, and the two modes of a store
StoreDatasets ==
    {[dic |-> <<<<1, <<1>>>>, <<2, <<2, 1>>>>>>, ctx |-> <<>>],
     [dic |-> <<<<1, <<1>>>>, <<2, <<2, 1>>>>>>, ctx |-> <<<<1, 1>>>>],
     [dic |-> <<<<1, <<2, 1>>>>>>, ctx |-> <<>>]}
StoreKeys == {NoKeys, KeyList(<<2, 1>>)}
StoreArgs ==
    [dataset : StoreDatasets, path : {"a"}, keys : StoreKeys,
     n : {1}, overwrite : BOOLEAN, before_pickling : {FALSE}]

NextStore ==
    \/ \E a \in StoreArgs : Call(a) /\ UNCHANGED <<queryVars, wrapVars, moreVars>>
    \/ \E offset_keys \in BOOLEAN : OpenStore("a", offset_keys) /\ UNCHANGED <<queryVars, wrapVars, moreVars>>
    \/ \E i \in Slots : \E key \in CallerKeys(stores[i]) :
          QueryItem(i, key) /\ UNCHANGED <<queryVars, wrapVars, moreVars>>
    \/ \E i \in Slots : Release(i) /\ UNCHANGED <<queryVars, wrapVars, moreVars>>

SpecStore == Init /\ [][NextStore]_vars

\* the registry, over two paths
RegistryArgs ==
    [dataset : {[dic |-> d, ctx |-> <<>>] : d \in DictsOf(<<Plain>>)},
     path : Paths, keys : {NoKeys}, n : {1}, overwrite : BOOLEAN,
     before_pickling : {FALSE}]

NextRegistry ==
    \/ \E a \in RegistryArgs : Call(a) /\ UNCHANGED <<queryVars, wrapVars, moreVars>>
    \/ \E p \in Paths : OpenStore(p, FALSE) /\ UNCHANGED <<queryVars, wrapVars, moreVars>>
    \/ \E i \in Slots : QueryItem(i, 1) /\ UNCHANGED <<queryVars, wrapVars, moreVars>>
    \/ \E i \in Slots : Release(i) /\ UNCHANGED <<queryVars, wrapVars, moreVars>>

SpecRegistry == Init /\ [][NextRegistry]_vars

\* Dataset.query
QueryInputs ==
    [dataset : {[dic |-> d, ctx |-> <<>>] :
                   d \in DictsOf(<<Plain \cup {<<2>>, <<1, 2>>}, Plain \cup {<<2>>, <<1, 2>>}>>)},
     keys : SeqsUpTo({1, 2, 3}, MaxQueryLen), wrap : BOOLEAN]

InitQuery ==
    StoreInit /\ qin \in QueryInputs /\ qout = NoOut /\ WrapIdle /\ MoreIdle

NextQuery == RunQuery

SpecQuery == InitQuery /\ [][NextQuery]_vars

\* chunkify, Dataset.batches and Dataset.balanced_batches
ChunkifyInputs ==
    [op : {"chunkify"}, dataset : {NoDataset}, keys : SeqsUpTo({1, 2}, MaxKeys),
     split_keys : {<<>>}, batch_size : 1..MaxBatch, wrap : {FALSE},
     generator_stop : {TRUE}]

BatchesDatasets ==
    {[dic |-> <<<<1, <<1>>>>, <<2, <<2, 1>>>>>>, ctx |-> <<>>],
     [dic |-> <<<<1, <<2, 1>>>>, <<2, <<1, 2>>>>, <<3, <<1, 1>>>>>>, ctx |-> <<>>]}

BatchesInputs ==
    [op : {"batches"}, dataset : BatchesDatasets,
     keys : SeqsUpTo({1, 2, 3}, MaxKeys), split_keys : {<<>>},
     batch_size : 1..MaxBatch, wrap : BOOLEAN, generator_stop : BOOLEAN]

\* key j of group g
GroupKey(g, j) == 10 * g + j
\* the groups of the given sizes: group g holds its keys 1..sizes[g]
GroupsOf(sizes) ==
    [g \in 1..Len(sizes) |-> [j \in 1..sizes[g] |-> GroupKey(g, j)]]
\* the keys of all groups, group after group
KeyAt(i) == GroupKey(((i - 1) \div MaxGroup) + 1, ((i - 1) % MaxGroup) + 1)
\* a dataset of the keys of all groups but those in lacking, the item of
\* key k being (k,) * width
BalancedDataset(width, lacking) ==
    [dic |-> SelectSeq([i \in 1..(MaxGroups * MaxGroup) |->
                           <<KeyAt(i), [w \in 1..width |-> KeyAt(i)]>>],
                       LAMBDA kv : kv[1] \notin lacking),
     ctx |-> <<>>]

BalancedInputs ==
    [op : {"balanced_batches"},
     dataset : {BalancedDataset(2, {}), BalancedDataset(1, {}),
                BalancedDataset(2, {GroupKey(1, 3)})},
     keys : {<<>>},
     split_keys : {GroupsOf(sizes) : sizes \in SeqsUpTo(0..MaxGroup, MaxGroups)},
     batch_size : 1..MaxBatch, wrap : {FALSE}, generator_stop : BOOLEAN]

InitBatches ==
    /\ StoreInit
    /\ qin \in ChunkifyInputs \cup BatchesInputs \cup BalancedInputs
    /\ qout = NoOut
    /\ WrapIdle
    /\ MoreIdle

NextBatches == RunChunkify \/ RunBatches \/ RunBalanced

SpecBatches == InitBatches /\ [][NextBatches]_vars

\* the caching wrappers: the inner datasets and the keys a caller asks for
InnerDatasets ==
    {[dic |-> <<<<1, <<1>>>>, <<2, <<2, 1>>>>>>, ctx |-> <<>>],
     [dic |-> <<<<2, <<1>>>>, <<3, <<1>>>>, <<1, <<2, 1>>>>>>, ctx |-> <<>>]}
WrapperKeys == {1, 2, 3}

InitWrap ==
    /\ StoreInit /\ QueryIdle
    /\ inner \in InnerDatasets /\ trace = <<>>
    /\ memo = NewCached /\ slot = EmptySlot /\ ret = NoRet
    /\ MoreIdle

NextCached ==
    \/ \E key \in WrapperKeys : CachedCall(key)
    \/ CachedFillForget

SpecCached == InitWrap /\ [][NextCached]_vars

NextLast == \E key \in WrapperKeys : LastCall(key)

SpecLast == InitWrap /\ [][NextLast]_vars

\* CacheLastDataset over datasets that have or lack the key None, asked for
\* that key too
SentinelDatasets ==
    {[dic |-> <<<<NoneKey, <<1, 2>>>>, <<1, <<2, 1>>>>>>, ctx |-> <<>>],
     [dic |-> <<<<1, <<1>>>>, <<2, <<2, 1>>>>>>, ctx |-> <<>>]}

InitSentinel ==
    /\ StoreInit /\ QueryIdle
    /\ inner \in SentinelDatasets /\ trace = <<>>
    /\ memo = NewCached /\ slot = EmptySlot /\ ret = NoRet
    /\ MoreIdle

NextSentinel == \E key \in WrapperKeys \cup {NoneKey} : LastCall(key)

SpecSentinel == InitSentinel /\ [][NextSentinel]_vars

\* AugmentedDataset and FilteredDataset: the inner datasets (one with the
\* key None), the datasets over them, and the keys a caller asks for
AugmentedInner ==
    {[dic |-> <<<<1, <<1, 2>>>>, <<2, <<2, 1>>>>>>, ctx |-> <<>>],
     [dic |-> <<<<NoneKey, <<1, 2>>>>, <<2, <<2, 1>>>>>>, ctx |-> <<>>]}
AugmentedDatasets ==
    {NewAugmented("permuting", "odd", TRUE)}
    \cup {NewAugmented("filtered", p, keep) : p \in {"odd", "rest", "big"},
                                               keep \in BOOLEAN}
RootKeys(dataset) == {dataset.dic[i][1] : i \in 1..Len(dataset.dic)} \cup {3}
AugmentedKeys(self, dataset) ==
    IF self.kind = "permuting"
    THEN {<<root, j>> : root \in RootKeys(dataset), j \in {0, 1}}
    ELSE RootKeys(dataset)

InitAugmented ==
    /\ StoreInit /\ QueryIdle
    /\ inner \in AugmentedInner /\ trace = <<>>
    /\ memo = NewCached /\ slot = EmptySlot /\ ret = NoRet
    /\ aug \in AugmentedDatasets /\ gen = NoGenerator /\ run = NoRuns
    /\ tds = NewTransformed(<<>>)
    /\ environ = NewEnvironment([n \in NameSet |-> Undefined]) /\ ran = NoRan

NextAugmented ==
    \/ \E key \in AugmentedKeys(aug, inner) : AugQuery(key)
    \/ AugListKeys
    \/ AugListNext

SpecAugmented == InitAugmented /\ [][NextAugmented]_vars

\* optimize_query_order: the datasets, the orders they are pickled in, and
\* the stores opened on the pickles
OptimizedDatasets ==
    {[dic |-> <<<<1, <<1, 2>>>>, <<2, <<2, 1>>>>, <<3, <<3, 3>>>>>>, ctx |-> <<>>],
     [dic |-> <<<<2, <<1, 1>>>>, <<1, <<2, 2>>>>>>, ctx |-> <<>>]}
PickledOrders == {<<3, 1, 2>>, <<2, 1>>, <<1, 2>>}
PickledStores(dataset) ==
    {init(create(dataset, KeyList(order)).data, offset_keys) :
        order \in {o \in PickledOrders : \A i \in 1..Len(o) : DatasetHas(dataset, o[i])},
        offset_keys \in BOOLEAN}
NoPickle == init(create(NoDataset, NoKeys).data, FALSE)

OptimizedInputs ==
    UNION {[op : {"augmented"}, dataset : {d}, store : {NoPickle},
            keys : SeqsUpTo({1, 2, 3}, MaxQueryLen), wrap : {FALSE}]
           \cup [op : {"pickled"}, dataset : {d}, store : PickledStores(d),
                 keys : SeqsUpTo({1, 2, 3}, MaxQueryLen), wrap : {FALSE}] :
           d \in OptimizedDatasets}

InitOptimized ==
    /\ StoreInit /\ WrapIdle /\ MoreIdle
    /\ qin \in OptimizedInputs
    /\ qout = [done |-> FALSE, raised |-> "none", arrays |-> <<>>, calls |-> <<>>,
               keys |-> <<>>]

NextOptimized == RunOptimized

SpecOptimized == InitOptimized /\ [][NextOptimized]_vars

\* Environment: the definitions a name can have (a definition refers to
\* the names after its own, which keeps every evaluation finite), and the
\* environments the caller constructs
Later(name) == IF name = "a" THEN {"b", "c"} ELSE IF name = "b" THEN {"c"} ELSE {}
Definitions(name) ==
    {Const(1), Const(2)} \cup {Ref(to) : to \in Later(name)}
    \cup {Exec(ct[1], ct[2]) :
             ct \in {x \in Later(name) \X Later(name) : x[1] # x[2]}}
Dic(a, b, c) == [n \in NameSet |-> IF n = "a" THEN a ELSE IF n = "b" THEN b ELSE c]
Environments ==
    {NewEnvironment(Dic(Exec("c", "b"), Ref("c"), Const(1))),
     NewEnvironment(Dic(Ref("b"), Const(2), Undefined))}
Updates ==
    {<<<<"b", Const(1)>>, <<"c", Const(2)>>>>, <<<<"c", Const(1)>>, <<"a", Ref("c")>>>>}

InitEnvironment ==
    /\ StoreInit /\ QueryIdle /\ WrapIdle
    /\ aug = NewAugmented("permuting", "odd", TRUE)
    /\ gen = NoGenerator /\ run = NoRuns
    /\ tds = NewTransformed(<<>>)
    /\ environ \in Environments /\ ran = NoRan

NextEnvironment ==
    \/ \E name \in NameSet : RunName(name)
    \/ \E key \in NameSet : \E value \in Definitions(key) : SetName(key, value)
    \/ \E items \in Updates : UpdateNames(items)

SpecEnvironment == InitEnvironment /\ [][NextEnvironment]_vars

NextDeleting ==
    \/ NextEnvironment
    \/ \E key \in NameSet : DelName(key)
    \/ \E key \in NameSet : PopName(key)

SpecDeleting == InitEnvironment /\ [][NextDeleting]_vars

\* TransformedDataset: the transforms, and the lists of them given to
\* __init__ and to add_transforms
Transforms == {"inc", "swap", "addkey"}
TransformLists == {<<>>, <<"inc">>, <<"addkey", "swap">>}

InitTransformed ==
    /\ StoreInit /\ QueryIdle
    /\ inner \in InnerDatasets /\ trace = <<>>
    /\ memo = NewCached /\ slot = EmptySlot /\ ret = NoRet
    /\ aug = NewAugmented("permuting", "odd", TRUE)
    /\ gen = NoGenerator /\ run = NoRuns
    /\ tds \in {NewTransformed(fns) : fns \in TransformLists}
    /\ environ = NewEnvironment([n \in NameSet |-> Undefined]) /\ ran = NoRan

NextTransformed ==
    \/ \E key \in WrapperKeys : TransformedCall(key)
    \/ \E fn \in Transforms : AddTransform(fn)
    \/ \E fns \in TransformLists : AddTransforms(fns)

SpecTransformed == InitTransformed /\ [][NextTransformed]_vars

(***************************************************************************)
(* The properties                                                          *)
(***************************************************************************)
\* the stores a caller can read
Readable(i) == stores[i].used /\ ~stores[i].closed

\* query_item(key) on the store returns the item
Returns(store, key, item) ==
    LET q == query_item(store, key)
    IN q.raised = "none" /\ q.value.kind = "tuple" /\ q.value.seq = item

\* C1: a store opened in key mode on a file that create(D, file, K) has
\* completed returns, for every key k of K, the item D.query_item(k),
\* wherever the earlier queries have left the file handle.
C1_RoundTrip ==
    \A i \in Slots :
        Readable(i) /\ ~stores[i].offset_keys =>
            \A n \in 1..Len(stores[i].made.keys) :
                Returns(stores[i], stores[i].made.keys[n],
                        DictGet(stores[i].made.dic, stores[i].made.keys[n]))

\* a key-mode store of two items has returned the item written last, which
\* leaves the handle beyond the offset of the item written first
C1_Witness ==
    \E i \in Slots :
        /\ Readable(i) /\ ~stores[i].offset_keys
        /\ stores[i].made.keys = <<2, 1>>
        /\ last.op = "query_item" /\ last.ret = i /\ last.key = 1
        /\ last.raised = "none" /\ last.value.seq = <<1>>
        /\ stores[i].pos > DictGet(stores[i].index, 2)

\* index offsets at the edges of the widths pickle gives an int: one, two,
\* four and eight bytes
HeaderOffsets ==
    {<<>>, <<255>>, <<0, 1>>, <<255, 255>>, <<0, 0, 1>>, <<255, 255, 255, 127>>,
     <<0, 0, 0, 128>>, <<255, 255, 255, 255, 255, 255, 255, 127>>,
     <<255, 255, 255, 255, 255, 255, 255, 255>>}

\* C8: the header of a created file decodes to the offset at which the
\* index was written, the header written last is as wide as the placeholder
\* written first, whatever the offset, and the items are intact after it.
C8_Header ==
    /\ \A x \in HeaderOffsets :
          /\ Len(PickleInt(HeaderOf(x))) = Len(Placeholder)
          /\ HeaderDecode(PickleInt(HeaderOf(x))) = x
    /\ \A p \in Paths :
        fs[p].exists =>
            LET w == written[p]
                data == fs[p].data
                ix == Load(data, w.index_location)
            IN /\ Norm(HeaderDecode(data)) = IntOf(w.index_location)
               /\ ix.st = "ok" /\ ix.kind = "dict"
               /\ w.header_end = w.placeholder_end
               /\ Load(data, 0).end = w.placeholder_end
               /\ \A n \in 1..Len(w.keys) :
                      LET v == Load(data, DictGet(DictOf(ix), w.keys[n]))
                      IN v.st = "ok" /\ v.seq = DictGet(w.dic, w.keys[n])

\* a file of two items and a context has been created
C8_Witness ==
    /\ fs["a"].exists
    /\ Len(written["a"].keys) = 2
    /\ written["a"].index_location > written["a"].placeholder_end
    /\ Load(fs["a"].data, Load(fs["a"].data, written["a"].index_location).end).st = "ok"

\* C9: a store opened with offset_keys lists the recorded offsets, and
\* query_item(o) returns the item written at the offset o.
C9_OffsetMode ==
    \A i \in Slots :
        Readable(i) /\ stores[i].offset_keys =>
            /\ list_keys(stores[i]) = DictValues(stores[i].index)
            /\ \A n \in 1..Len(stores[i].index) :
                   Returns(stores[i], stores[i].index[n][2],
                           DictGet(stores[i].made.dic, stores[i].index[n][1]))

\* the stores of a path that the registry has handed out and that are open
OpenTracked(p) ==
    {i \in Slots : Readable(i) /\ stores[i].tracked /\ stores[i].path = p}

\* C7: of the handles opened through _open_once for a path at most one is
\* open, the one the registry tracks; a store that an earlier pickle_or_load
\* returned for the path is closed, and its query_item fails.
C7_SingleHandle ==
    \A p \in Paths :
        /\ Cardinality(OpenTracked(p)) <= 1
        /\ \A i \in OpenTracked(p) : open_pickles[p] = i
        /\ \A i \in Slots :
               stores[i].used /\ stores[i].tracked /\ stores[i].path = p
               /\ open_pickles[p] # i =>
                   /\ stores[i].closed
                   /\ \A n \in 1..Len(stores[i].index) :
                          query_item(stores[i], stores[i].index[n][1]).raised
                              = "ValueError"

\* a second pickle_or_load on the path has returned, and the caller has
\* queried the store the first one returned
C7_Witness ==
    \E i, j \in Slots :
        /\ i # j
        /\ stores[i].used /\ stores[i].tracked /\ stores[i].closed
        /\ Readable(j) /\ stores[j].tracked /\ stores[j].path = stores[i].path
        /\ open_pickles[stores[j].path] = j
        /\ last.op = "query_item" /\ last.ret = i /\ last.raised = "ValueError"

\* the items query() reads: query_item(keys[i]) for every i
Asked(i) == DatasetQueryItem(qin.dataset, qin.keys[i])
AllPresent == \A i \in 1..Len(qin.keys) : DatasetHas(qin.dataset, qin.keys[i])

\* what C10 says of the arrays: one per position of the first item, each of
\* length len(keys), entry i of array j the component j of the item of keys[i]
ArraysOfItems ==
    /\ qout.raised = "none"
    /\ Len(qout.arrays) = Len(Asked(1))
    /\ \A j \in 1..Len(qout.arrays) :
          /\ qout.arrays[j].shape = <<Len(qin.keys)>>
          /\ \A i \in 1..Len(qin.keys) : qout.arrays[j].data[i] = Asked(i)[j]

After(r) == [fs |-> r.fs, stores |-> r.stores, open_pickles |-> r.open_pickles,
             written |-> r.written]

\* the caller can hold n more stores
FreeSlots(n) == Cardinality({i \in Slots : ~stores[i].used}) >= n

\* the store a call returned
Returned(r) == r.stores[r.out.ret]

\* what the store gives for each of its keys, in the order of list_keys()
ItemsOf(store) ==
    [n \in 1..Len(store.index) |->
        <<store.index[n][1], query_item(store, store.index[n][1]).value>>]

\* the call returned a store that is open and reads every item of its file
Usable(r) ==
    /\ r.out.raised = "none"
    /\ Returned(r).used /\ ~Returned(r).closed
    /\ \A n \in 1..Len(Returned(r).index) :
          LET q == query_item(Returned(r), Returned(r).index[n][1])
          IN q.raised = "none"
             /\ q.value = Load(r.fs[Returned(r).path].data, Returned(r).index[n][2])

Position(log, what) == CHOOSE n \in 1..Len(log) : log[n] = what
Logged(log, what) == \E n \in 1..Len(log) : log[n] = what

\* C2: when the path does not exist and create raises, pickle_or_load
\* raises to the caller and leaves no file at the path.
C2_PartialWrite ==
    \A a \in ReconcileArgs :
        FreeSlots(1) /\ ~fs[a.path].exists /\ create(a.dataset, a.keys).raised =>
            /\ Result(Cur, a).out.raised = "create"
            /\ ~Result(Cur, a).fs[a.path].exists

\* a creation has written its first item and failed on its last key
C2_Witness ==
    /\ last.op = "pickle_or_load" /\ ~last.existed /\ last.create_raised
    /\ last.raised = "create"
    /\ Logged(last.log, "create") /\ Logged(last.log, "remove_partial")
    /\ ~fs[last.path].exists

\* C3: two calls in a row with the same arguments and overwrite=False: the
\* second creates nothing (the file is the same, before_pickling is not
\* called) and returns a store of the same keys and items as the first.
C3_Idempotent ==
    \A a \in ReconcileArgs :
        FreeSlots(2) /\ ~a.overwrite /\ Result(Cur, a).out.raised = "none" =>
            LET r1 == Result(Cur, a)
                r2 == Result(After(r1), a)
            IN /\ r2.out.raised = "none"
               /\ ~r2.out.created
               /\ ~Logged(r2.out.log, "before_pickling")
               /\ ~Logged(r2.out.log, "open_wb")
               /\ r2.fs = r1.fs
               /\ list_keys(Returned(r2)) = list_keys(Returned(r1))
               /\ ItemsOf(Returned(r2)) = ItemsOf(Returned(r1))

\* a call has found the file an earlier call made of the same dataset and
\* keys, created nothing, and the caller holds the stores of both calls
C3_Witness ==
    \E i, j \in Slots :
        /\ i # j
        /\ stores[i].used /\ stores[i].tracked /\ stores[i].closed
        /\ Readable(j) /\ stores[j].tracked
        /\ stores[i].made = stores[j].made
        /\ last.op = "pickle_or_load" /\ last.ret = j
        /\ last.existed /\ ~last.overwrite /\ ~last.created
        /\ last.warning = "none"

\* C4: with overwrite=True pickle_or_load creates the file anew: a file at
\* the path is removed before the creation, before_pickling is called
\* before create, and the store returned holds the keys and items of the
\* dataset of this call.
C4_Overwrite ==
    \A a \in ReconcileArgs :
        FreeSlots(1) /\ a.overwrite =>
            LET r == Result(Cur, a)
                log == r.out.log
                keys == KeysOrListKeys(a.dataset, a.keys)
            IN /\ r.out.created
               /\ Logged(log, "create")
               /\ fs[a.path].exists =>
                      /\ Logged(log, "remove")
                      /\ Position(log, "remove") < Position(log, "open_wb")
               /\ Logged(log, "before_pickling") = a.before_pickling
               /\ a.before_pickling =>
                      /\ Position(log, "before_pickling") < Position(log, "open_wb")
                      /\ Position(log, "before_pickling") < Position(log, "create")
               /\ r.out.raised = "none" =>
                      /\ Usable(r)
                      /\ list_keys(Returned(r)) = keys
                      /\ \A n \in 1..Len(keys) :
                             Returns(Returned(r), keys[n],
                                     DatasetQueryItem(a.dataset, keys[n]))

\* a call with overwrite=True and a before_pickling has replaced the file of
\* another dataset, whose store the caller still holds
C4_Witness ==
    \E i \in Slots :
        /\ last.op = "pickle_or_load" /\ last.overwrite /\ last.existed
        /\ last.created /\ last.raised = "none"
        /\ last.log = <<"close", "remove", "before_pickling", "open_wb", "create",
                        "open_rb", "check", "return">>
        /\ i # last.ret
        /\ stores[i].used /\ stores[i].closed /\ stores[i].path = last.path
        /\ stores[i].made.dic # stores[last.ret].made.dic

\* the file as a store reads it: its content and its index
FileOf(data) == [data |-> data, index |-> init(data, FALSE).index]

\* the item the file has for the key
Stored(file, key) == Load(file.data, DictGet(file.index, key)).seq

\* what the check of one key meets in the file: the dataset fails on the
\* key ("KeyError"), the file lacks it ("missing"), or the comparison ends
\* "true", "false", "diff" (DiffReason) or "raise" (another exception)
Finding(dataset, file, key) ==
    IF ~DatasetHas(dataset, key) THEN "KeyError"
    ELSE IF ~DictHas(file.index, key) THEN "missing"
    ELSE items_equality(DatasetQueryItem(dataset, key), Stored(file, key))

\* the keys of the check, and the first finding that ends it
Checked(a) == FirstChunk(a.dataset, a.keys, a.n)
FirstFinding(a, data) ==
    LET chunk == Checked(a)
        file == FileOf(data)
        found == [n \in 1..Len(chunk) |-> Finding(a.dataset, file, chunk[n])]
        odd == {n \in 1..Len(chunk) : found[n] # "true"}
    IN IF odd = {} THEN "true"
       ELSE found[CHOOSE n \in odd : \A m \in odd : n <= m]

\* the file has, for one of the keys checked, another item than the dataset
Stale(a, data) ==
    LET file == FileOf(data)
    IN \E n \in 1..Len(Checked(a)) :
          /\ DatasetHas(a.dataset, Checked(a)[n])
          /\ DictHas(file.index, Checked(a)[n])
          /\ Stored(file, Checked(a)[n]) # DatasetQueryItem(a.dataset, Checked(a)[n])

\* every key checked is one the dataset has, and no comparison raises
\* another exception than DiffReason
Comparable(a, data) ==
    LET file == FileOf(data)
    IN \A n \in 1..Len(Checked(a)) :
          Finding(a.dataset, file, Checked(a)[n]) \notin {"KeyError", "raise"}

\* the call warned, returned a usable store, and left the file as it was
WarnedOnly(r) ==
    /\ r.out.warning \in {"out_of_date", "out_of_date_reason"}
    /\ Usable(r)
    /\ ~r.out.created
    /\ r.fs = fs

C6_AsStated ==
    \A a \in ReconcileArgs :
        FreeSlots(1) =>
            LET r == Result(Cur, a)
            IN /\ r.out.raised # "none" => r.out.raised = "create"
               /\ r.out.raised # "create"
                  /\ FirstFinding(a, r.fs[a.path].data) \in {"missing", "diff", "raise"}
                      => Usable(r) /\ r.out.warning = "out_of_date_reason"

\* C6, amended: a key the store lacks, or a DiffReason raised while
\* comparing, is a mismatch with a reason: the store is returned and nothing
\* is raised.  Another exception raised while comparing is warned of and
\* raised to the caller, as are a failure of dataset.query_item on a key
\* checked and a failure of the creation.
C6_CheckFaults ==
    \A a \in ReconcileArgs :
        FreeSlots(1) /\ Result(Cur, a).out.raised # "create" =>
            LET r == Result(Cur, a)
                first == FirstFinding(a, r.fs[a.path].data)
            IN /\ first \in {"missing", "diff"} =>
                      Usable(r) /\ r.out.warning = "out_of_date_reason"
               /\ first = "raise" =>
                      r.out.raised = "Exception" /\ r.out.warning = "could_not_check"
               /\ first = "KeyError" =>
                      r.out.raised = "KeyError" /\ r.out.warning = "none"
               /\ first \in {"true", "false"} => Usable(r)
               /\ r.out.raised # "none" => r.stores = OpenOnceClose(Cur, a.path)

\* a call has met an item whose comparison raises, warned and raised
C6_Witness ==
    /\ last.op = "pickle_or_load" /\ last.existed /\ ~last.created
    /\ last.raised = "Exception" /\ last.warning = "could_not_check"
    /\ fs[last.path].exists
    /\ \E i \in Slots : stores[i].used /\ stores[i].closed /\ stores[i].tracked

\* the empty key list reaches query: batches over an empty keys sequence, or
\* balanced_batches (of a batch size its groups divide) over an empty group
EmptyReachesQuery ==
    \/ qin.op = "batches" /\ qin.keys = <<>>
    \/ /\ qin.op = "balanced_batches"
       /\ Len(qin.split_keys) > 0
       /\ qin.batch_size % Len(qin.split_keys) = 0
       /\ \E g \in 1..Len(qin.split_keys) : qin.split_keys[g] = <<>>

\* C11 as stated: when the empty key list reaches query through batches or
\* balanced_batches, the caller observes the error query([]) fails with.
C11_EmptyBatch ==
    qout.done /\ EmptyReachesQuery
        => qout.raised = query(qin.dataset, <<>>, qin.wrap).raised

\* s is the first Len(s) elements of t
IsPrefix(s, t) == Len(s) <= Len(t) /\ s = SubSeq(t, 1, Len(s))

\* C12: query(keys) on a non-empty key list calls query_item on the keys in
\* the order of keys, one call per position and none repeated; a query that
\* returns has made exactly len(keys) calls, the call i being for keys[i].
C12_Calls ==
    qout.done /\ qin.keys # <<>>
        => /\ IsPrefix(qout.calls, qin.keys)
           /\ Len(qout.calls) >= 1
           /\ qout.raised \notin {"KeyError", "IndexError"} => qout.calls = qin.keys

\* a query of three keys, the first of them asked again last, has returned
C12_Witness ==
    /\ qout.done /\ qout.raised = "none"
    /\ qin.keys = <<1, 2, 1>>
    /\ qout.calls = <<1, 2, 1>>

RECURSIVE ConcatFrom(_, _)
\* the concatenation of the chunks from chunk c on
ConcatFrom(chunks, c) ==
    IF c > Len(chunks) THEN <<>> ELSE chunks[c] \o ConcatFrom(chunks, c + 1)

\* C13: for every sequence S and n > 0, concatenating the chunks chunkify
\* yields gives S; every chunk but the last has length n; the last chunk of
\* a non-empty S has between 1 and n elements; an empty S yields exactly
\* one empty chunk.
C13_Chunks ==
    qout.done /\ qin.op = "chunkify"
        => LET S == qin.keys
               n == qin.batch_size
               chunks == qout.chunks
           IN /\ Len(chunks) >= 1
              /\ ConcatFrom(chunks, 1) = S
              /\ \A c \in 1..(Len(chunks) - 1) : Len(chunks[c]) = n
              /\ S # <<>> => Len(chunks[Len(chunks)]) \in 1..n
              /\ S = <<>> => chunks = << <<>> >>

\* chunkify has cut a sequence longer than n, and not a multiple of it, into
\* full chunks and a shorter last one
C13_Witness ==
    /\ qout.done /\ qin.op = "chunkify"
    /\ qin.keys = <<1, 2, 2>> /\ qin.batch_size = 2
    /\ qout.chunks = << <<1, 2>>, <<2>> >>

\* the chunks batches() iterates over
KeyChunks == chunkify(qin.keys, qin.batch_size)

\* C14: batches(keys, batch_size) for non-empty keys and batch_size > 0
\* yields finitely many batches, the batch c being query(chunk c of
\* chunkify(keys, batch_size)), in chunk order; an epoch that completes has
\* one batch per chunk and has queried every position of keys exactly once,
\* in the order of keys.
C14_Batches ==
    qout.done /\ qin.op = "batches" /\ qin.keys # <<>>
        => /\ Len(qout.yielded) <= Len(KeyChunks)
           /\ \A c \in 1..Len(qout.yielded) :
                 /\ qout.yielded[c].keys = KeyChunks[c]
                 /\ qout.yielded[c].arrays
                        = query(qin.dataset, KeyChunks[c], qin.wrap).arrays
           /\ IsPrefix(qout.calls, qin.keys)
           /\ qout.raised = "none"
                 => Len(qout.yielded) = Len(KeyChunks) /\ qout.calls = qin.keys

\* an epoch of three keys in batches of two has completed: a full batch and
\* a shorter last one
C14_Witness ==
    /\ qout.done /\ qin.op = "batches" /\ qout.raised = "none"
    /\ qin.keys = <<2, 1, 2>> /\ qin.batch_size = 2
    /\ Len(qout.yielded) = 2
    /\ qout.yielded[1].keys = <<2, 1>> /\ qout.yielded[2].keys = <<2>>

\* C15: balanced_batches over one or more key groups fails with the
\* even-split error (the assert of line 98), with no batch yielded and no
\* item queried, whenever the number of groups does not divide batch_size.
C15_EvenSplit ==
    qout.done /\ qin.op = "balanced_batches" /\ Len(qin.split_keys) > 0
    /\ qin.batch_size % Len(qin.split_keys) # 0
        => /\ qout.raised = "AssertionError"
           /\ qout.yielded = <<>>
           /\ qout.calls = <<>>

\* balanced_batches with batch_size 3 over two groups of two keys has failed
C15_Witness ==
    /\ qout.done /\ qin.op = "balanced_batches"
    /\ qin.batch_size = 3
    /\ qin.split_keys = GroupsOf(<<2, 2>>)
    /\ qout.raised = "AssertionError" /\ qout.calls = <<>>

\* batch_size / groups
SubSize == qin.batch_size \div Len(qin.split_keys)

\* the concatenation, in group order, of the run of length len of every
\* group that starts where the batch c starts
RunsOf(c, len) ==
    SumLists([g \in 1..Len(qin.split_keys) |->
                 SubSeq(qin.split_keys[g], (c - 1) * SubSize + 1,
                        (c - 1) * SubSize + len)])

\* C16: for one or more non-empty key groups and a batch_size their number
\* divides, the key list of every batch balanced_batches yields is the
\* concatenation, in group order, of one contiguous run of each group, the
\* runs all of one length; the key list has batch_size keys in every batch
\* but possibly the last one yielded.
C16_Balanced ==
    qout.done /\ qin.op = "balanced_batches" /\ Len(qin.split_keys) > 0
    /\ (\A g \in 1..Len(qin.split_keys) : qin.split_keys[g] # <<>>)
    /\ qin.batch_size % Len(qin.split_keys) = 0
        => \A c \in 1..Len(qout.yielded) :
              /\ \E len \in 1..SubSize :
                    /\ \A g \in 1..Len(qin.split_keys) :
                          (c - 1) * SubSize + len <= Len(qin.split_keys[g])
                    /\ qout.yielded[c].keys = RunsOf(c, len)
              /\ c < Len(qout.yielded)
                    => Len(qout.yielded[c].keys) = qin.batch_size

\* groups of sizes [4, 4] and batch_size 4: two batches of two keys of each
\* group
C16_Witness ==
    /\ qout.done /\ qin.op = "balanced_batches" /\ qout.raised = "none"
    /\ qin.split_keys = GroupsOf(<<4, 4>>) /\ qin.batch_size = 4
    /\ Len(qout.yielded) = 2
    /\ qout.yielded[1].keys = <<GroupKey(1, 1), GroupKey(1, 2), GroupKey(2, 1), GroupKey(2, 2)>>
    /\ qout.yielded[2].keys = <<GroupKey(1, 3), GroupKey(1, 4), GroupKey(2, 3), GroupKey(2, 4)>>

\* the calls made on the inner dataset's query_item for the key
InnerCallsOf(key) ==
    Cardinality({n \in 1..Len(trace) :
                    trace[n].kind = "query_item" /\ trace[n].key = key})

\* the step is a call of query_item(key) on the wrapper
Queried(key) ==
    ret'.n = ret.n + 1 /\ ret'.op = "query_item" /\ ret'.key = key

\* every key of the inner dataset has been asked of it at most once, and the
\* cache holds the item the inner dataset gave
AskedOnce ==
    \A key \in WrapperKeys :
        /\ DatasetHas(inner, key) => InnerCallsOf(key) <= 1
        /\ DictHas(memo.cache, key)
              => /\ InnerCallsOf(key) = 1
                 /\ DictGet(memo.cache, key) = DatasetQueryItem(inner, key)

\* a cached entry stays as it is, and query_item of a cached key returns
\* the cached item with no call on the inner dataset
KeptAndReused ==
    \A key \in WrapperKeys :
        DictHas(memo.cache, key)
            => /\ DictHas(memo'.cache, key)
               /\ DictGet(memo'.cache, key) = DictGet(memo.cache, key)
               /\ Queried(key)
                     => /\ ret'.raised = "none"
                        /\ ret'.value = DictGet(memo.cache, key)
                        /\ trace' = trace

\* C17: in any sequence of calls on a CachedDataset the inner dataset's
\* query_item is invoked at most once per key it has; a later query_item(k)
\* returns the item of the first call without invoking the inner dataset;
\* no cached entry is ever evicted or replaced.
C17_Memo == []AskedOnce /\ [][KeptAndReused]_vars

\* three calls, the third for the key of the first, with one other key
\* cached in between: the inner dataset was asked twice
C17_Witness ==
    /\ ret.n = 3 /\ ret.op = "query_item" /\ ret.raised = "none"
    /\ Len(trace) = 2 /\ trace[1].key = ret.key /\ trace[2].key # ret.key
    /\ Len(memo.cache) = 2
    /\ ret.value = DictGet(memo.cache, ret.key)

SetOf(seq) == {seq[n] : n \in 1..Len(seq)}

\* fill_forget() has returned
Forgotten == memo.list_keys = "_cached_keys"

\* C18: after fill_forget(), whatever queries preceded it, list_keys()
\* returns exactly the key set of the inner dataset's list_keys(), the
\* reference to the inner dataset is dropped, and query_item of every one of
\* those keys returns its item with no call on the inner dataset.
C18_FillForget ==
    /\ ret.op = "fill_forget" /\ ret.raised = "none" => Forgotten
    /\ Forgotten
          => /\ SetOf(CachedListKeys(memo, inner)) = SetOf(DatasetListKeys(inner))
             /\ memo.dataset = "None"
             /\ \A key \in SetOf(CachedListKeys(memo, inner)) :
                   /\ CachedQueryItem(memo, inner, trace, key).raised = "none"
                   /\ CachedQueryItem(memo, inner, trace, key).value
                          = DatasetQueryItem(inner, key)
                   /\ CachedQueryItem(memo, inner, trace, key).log = trace

\* fill_forget() has returned after two queries, which put the keys in the
\* cache in another order than the inner dataset lists them
C18_Witness ==
    /\ ret.op = "fill_forget" /\ ret.raised = "none" /\ ret.n = 3
    /\ Forgotten /\ memo.dataset = "None"
    /\ Len(memo.cache) = 3
    /\ CachedListKeys(memo, inner) # DatasetListKeys(inner)

\* C19: after fill_forget(), query_item of a key that is not in the cache
\* fails with the stale-index fault (the AttributeError of None.query_item,
\* line 357) and leaves the cache, list_keys() and the inner dataset's call
\* log as they were; no key that list_keys() returns fails so.
C19_Stale ==
    Forgotten
        => \A key \in WrapperKeys :
              /\ ~DictHas(memo.cache, key)
                    => /\ CachedQueryItem(memo, inner, trace, key).raised = "AttributeError"
                       /\ CachedQueryItem(memo, inner, trace, key).obj = memo
                       /\ CachedQueryItem(memo, inner, trace, key).log = trace
              /\ key \in SetOf(CachedListKeys(memo, inner))
                    => CachedQueryItem(memo, inner, trace, key).raised = "none"

\* after fill_forget() the caller has asked for a key the inner dataset did
\* not list, and got the fault
C19_Witness ==
    /\ Forgotten
    /\ ret.op = "query_item" /\ ret.raised = "AttributeError"
    /\ ~DictHas(memo.cache, ret.key)
    /\ ret.key \notin SetOf(CachedListKeys(memo, inner))
    /\ Len(memo.cache) = 2

\* the stored key is the key asked for
Hit(key) == slot.set /\ slot.key = key

\* one call of query_item on the CacheLastDataset: a hit returns the stored
\* item and calls nothing; a miss asks the inner dataset once, stores
\* (key, item), then calls the hook once, which finds (key, item) stored
LastStep ==
    \A key \in WrapperKeys :
        Queried(key)
            => /\ Hit(key)
                     => /\ ret'.raised = "none" /\ ret'.value = slot.item
                        /\ trace' = trace /\ slot' = slot
               /\ ~Hit(key) /\ DatasetHas(inner, key)
                     => /\ ret'.raised = "none"
                        /\ ret'.value = DatasetQueryItem(inner, key)
                        /\ slot' = Slot(key, DatasetQueryItem(inner, key))
                        /\ trace' = trace \o
                              <<InnerCall(key),
                                HookCall(key, DatasetQueryItem(inner, key), slot')>>
               /\ ~Hit(key) /\ ~DatasetHas(inner, key)
                     => /\ ret'.raised = "KeyError"
                        /\ slot' = slot
                        /\ trace' = Append(trace, InnerCall(key))

\* C20: a CacheLastDataset holds at most one (key, item) pair; query_item
\* of the stored key returns the stored item without a call on the inner
\* dataset or on the hook; of another key it asks the inner dataset once,
\* overwrites the slot with (key, item) and then calls
\* after_cache_miss(key, item) exactly once.
C20_SingleSlot == [][LastStep]_vars

\* three calls: two misses that the inner dataset answered, and one hit
C20_Witness ==
    /\ ret.n = 3 /\ ret.op = "query_item" /\ ret.raised = "none"
    /\ Len(trace) = 4
    /\ trace[2].kind = "after_cache_miss" /\ trace[4].kind = "after_cache_miss"
    /\ trace[2].key # trace[4].key
    /\ trace[4].cache = slot /\ slot.key = ret.key /\ slot.item = ret.value

\* the keys an uninterrupted list_keys() of the augmented dataset yields:
\* for every root key of the inner dataset, in inner order, the derived
\* keys augment produces for it
DerivedKeys ==
    SumLists([r \in 1..Len(inner.dic) |->
                 DictKeys(augment(aug, inner.dic[r][1], inner.dic[r][2]).items)])

\* no root key is None, and the dataset is the one with derived keys
Permuting == aug.kind = "permuting" /\ ~DatasetHas(inner, NoneKey)

\* what list_keys() has yielded so far, and yields in all
ListsDerivedKeys ==
    /\ IsPrefix(gen.yielded, DerivedKeys)
    /\ gen.state = "done" => gen.yielded = DerivedKeys

\* a run of accesses to a root the inner dataset has, no fetch of which failed
Fetching(r) == r.any /\ ~r.failed /\ DatasetHas(inner, r.root)

Filtering ==
    /\ aug.kind = "filtered" /\ aug.predicate \in {"odd", "big"}
    /\ ~DatasetHas(inner, NoneKey)

\* predicate(k, item) equals the configured polarity
Keeps(key) ==
    Predicate(aug.predicate, key, DatasetQueryItem(inner, key)).truthy
        = aug.keep_positive

\* the inner keys the predicate keeps, in inner order
KeptKeys == SelectSeq(DatasetListKeys(inner), Keeps)

Filter == aug.kind = "filtered" /\ ~DatasetHas(inner, NoneKey)

\* what the predicate returns for an inner key
TruthValue(key) == Predicate(aug.predicate, key, DatasetQueryItem(inner, key))
\* what augment gives for an inner key
AugmentOf(key) == augment(aug, key, DatasetQueryItem(inner, key))

\* C23 as stated: the result of the predicate is taken by its truthiness:
\* one that matches keep_positive keeps the item, one that matches the
\* opposite drops it, both without error (every value matches one of the
\* two, so the invalid-predicate error is never raised).
C23_AsStated ==
    Filter
        => /\ \A key \in SetOf(DatasetListKeys(inner)) :
                 /\ AugmentOf(key).raised = "none"
                 /\ AugmentOf(key).items
                        = IF TruthValue(key).truthy = aug.keep_positive
                          THEN <<<<key, DatasetQueryItem(inner, key)>>>> ELSE <<>>
           /\ ret.raised # "AssertionError"
           /\ gen.state # "raised"

\* C23, amended: FilteredDataset fails with the invalid-predicate error (the
\* AssertionError of line 334) exactly when the predicate returns an object
\* that is neither True nor False; the bool equal to keep_positive keeps the
\* item and the other bool drops it, without error.
C23_Boolean ==
    Filter
        => /\ \A key \in SetOf(DatasetListKeys(inner)) :
                 /\ AugmentOf(key).raised = "AssertionError" <=> ~TruthValue(key).bool
                 /\ TruthValue(key).bool
                       => /\ AugmentOf(key).raised = "none"
                          /\ AugmentOf(key).items
                                 = IF TruthValue(key).truthy = aug.keep_positive
                                   THEN <<<<key, DatasetQueryItem(inner, key)>>>>
                                   ELSE <<>>
           /\ ret.raised = "AssertionError" => aug.predicate = "rest"
           /\ gen.state = "raised" => aug.predicate = "rest"
           /\ aug.predicate = "rest" /\ ret.op = "query_item"
              /\ DatasetHas(inner, ret.key)
                 => ret.raised = "AssertionError"

\* the predicate returned the int 1 for the key 1 with keep_positive True:
\* query_item(1) and list_keys() have both failed
C23_Witness ==
    /\ Filter /\ aug.predicate = "rest" /\ aug.keep_positive
    /\ ret.op = "query_item" /\ ret.key = 1 /\ ret.raised = "AssertionError"
    /\ gen.state = "raised" /\ gen.yielded = <<>>

(***************************************************************************)
(* C24.  TransformedDataset.query_item(key) fetches the inner item once    *)
(* and calls every registered transform, in registration order, the first  *)
(* on the inner item and each next one on the result of the one before,    *)
(* with (key, item) when the transform is key-aware and with the item      *)
(* alone otherwise, and returns the last result; add_transform and         *)
(* add_transforms put the new transforms after all earlier ones and call   *)
(* nothing, so that a transform acts on the queries made after it only.    *)
(***************************************************************************)
\* the calls the step has added to the log
NewCalls == SubSeq(trace', Len(trace) + 1, Len(trace'))

\* the result of the call i of the new calls, the call 1 being the inner one
ResultOf(i) ==
    IF i = 1 THEN DatasetQueryItem(inner, ret'.key)
    ELSE Apply(NewCalls[i].fn, NewCalls[i].args)

TransformsInOrder ==
    /\ tds' = tds
    /\ Len(NewCalls) >= 1
    /\ NewCalls[1] = InnerCall(ret'.key)
    /\ IF ~DatasetHas(inner, ret'.key)
       THEN Len(NewCalls) = 1 /\ ret'.raised = "KeyError"
       ELSE /\ Len(NewCalls) = Len(tds.transforms) + 1
            /\ \A i \in 1..Len(tds.transforms) :
                  /\ NewCalls[i + 1].kind = "transform"
                  /\ NewCalls[i + 1].fn = tds.transforms[i].fn
                  /\ NewCalls[i + 1].args =
                        IF NeedsKey(tds.transforms[i].fn)
                        THEN <<ret'.key, ResultOf(i)>>
                        ELSE <<ResultOf(i)>>
            /\ ret'.raised = "none"
            /\ ret'.value = ResultOf(Len(NewCalls))

AddedLast ==
    /\ trace' = trace
    /\ IsPrefix(tds.transforms, tds'.transforms)
    /\ Len(tds'.transforms) > Len(tds.transforms) \/ ret'.op = "add_transforms"
    /\ ret'.op = "add_transform" => Len(tds'.transforms) = Len(tds.transforms) + 1

TransformedStep ==
    IF ret'.op = "query_item" THEN TransformsInOrder ELSE AddedLast

C24_Transforms == [][TransformedStep]_vars

\* a query has gone through three transforms, a key-aware one among them,
\* whose order matters, one of them added after an earlier query
C24_Witness ==
    /\ ret.op = "query_item" /\ ret.raised = "none" /\ ret.n >= 3
    /\ Len(tds.transforms) = 3
    /\ tds.transforms[1].fn = "addkey" /\ tds.transforms[2].fn = "swap"
    /\ tds.transforms[3].fn = "inc"
    /\ ret.value # Apply("swap", <<Apply("inc", <<Apply("addkey",
                       <<ret.key, DatasetQueryItem(inner, ret.key)>>)>>)>>)
    /\ Len(trace) = 7 /\ trace[4] = InnerCall(ret.key)

(***************************************************************************)
(* C25.  After optimize_query_order(dataset), dataset.query(keys) returns  *)
(* arrays whose position i holds the item of the i-th key of the list as   *)
(* the caller supplied it.  The code returns the arrays in the order of    *)
(* the sorted list and leaves the caller's list sorted: the statement      *)
(* fails for every list that is not sorted already.                        *)
(***************************************************************************)
\* the arrays hold, at each position, the item of the key at that position
ArraysFollow(keys) ==
    \A j \in 1..Len(qout.arrays) : \A i \in 1..Len(keys) :
        qout.arrays[j].data[i] = DatasetQueryItem(qin.dataset, keys[i])[j]

C25_OriginalOrder ==
    qout.done /\ qout.raised = "none" => ArraysFollow(qin.keys)

\* what the code does: the arrays follow the list as the call has left it,
\* the keys of the caller in ascending order of offset (or of key)
C25_SortedOrder ==
    qout.done /\ qout.raised = "none" =>
        /\ ArraysFollow(qout.keys) /\ qout.calls = qout.keys
        /\ Len(qout.keys) = Len(qin.keys)
        /\ \A k \in {1, 2, 3} :
              Cardinality({i \in 1..Len(qin.keys) : qin.keys[i] = k})
                  = Cardinality({i \in 1..Len(qout.keys) : qout.keys[i] = k})
        /\ \A i \in 1..(Len(qout.keys) - 1) :
              IF qin.op = "augmented" THEN qout.keys[i] <= qout.keys[i + 1]
              ELSE offset_of_key(qin.store, qout.keys[i])
                      <= offset_of_key(qin.store, qout.keys[i + 1])

\* a query on a list that is not in the order of the offsets has returned
C25_Witness ==
    /\ qout.done /\ qout.raised = "none" /\ qin.op = "pickled"
    /\ qin.store.list_keys = "_default_list_keys"
    /\ qout.keys # qin.keys /\ Len(qin.keys) = 3
    /\ \E i \in 1..2 : qout.keys[i] > qout.keys[i + 1]

\* the batches that use the key, and the keys of the group g in the batch c
BatchesOf(key) ==
    {c \in 1..Len(qout.yielded) :
        \E i \in 1..Len(qout.yielded[c].keys) : qout.yielded[c].keys[i] = key}
SharesOf(g, c) ==
    {i \in 1..Len(qout.yielded[c].keys) :
        \E j \in 1..Len(qin.split_keys[g]) :
            qout.yielded[c].keys[i] = qin.split_keys[g][j]}
SmallestGroups ==
    {g \in 1..Len(qin.split_keys) :
        \A h \in 1..Len(qin.split_keys) :
            Len(qin.split_keys[g]) <= Len(qin.split_keys[h])}

(***************************************************************************)
(* C27.  balanced_batches makes one epoch of the smallest group: for       *)
(* non-empty groups of distinct keys and a batch_size their number         *)
(* divides, when the generator ends without an exception every key of a    *)
(* smallest group is in exactly one yielded batch, no key of any group is  *)
(* in more than one batch or twice in a batch, and in every batch every    *)
(* group has the same number of keys (the surplus of the longer groups is  *)
(* left out).                                                              *)
(***************************************************************************)
C27_Epoch ==
    qout.done /\ qin.op = "balanced_batches" /\ Len(qin.split_keys) > 0
    /\ (\A g \in 1..Len(qin.split_keys) : qin.split_keys[g] # <<>>)
    /\ qin.batch_size % Len(qin.split_keys) = 0
    /\ qout.raised = "none"
        => /\ \A g \in SmallestGroups : \A j \in 1..Len(qin.split_keys[g]) :
                 Cardinality(BatchesOf(qin.split_keys[g][j])) = 1
           /\ \A g \in 1..Len(qin.split_keys) : \A j \in 1..Len(qin.split_keys[g]) :
                 Cardinality(BatchesOf(qin.split_keys[g][j])) <= 1
           /\ \A c \in 1..Len(qout.yielded) :
                 /\ \A i, j \in 1..Len(qout.yielded[c].keys) :
                       qout.yielded[c].keys[i] = qout.yielded[c].keys[j] => i = j
                 /\ \A g, h \in 1..Len(qin.split_keys) :
                       Cardinality(SharesOf(g, c)) = Cardinality(SharesOf(h, c))

\* groups of sizes [3, 4] and batch_size 4: the last batch has one key of
\* each group, and the fourth key of the longer group is in no batch
C27_Witness ==
    /\ qout.done /\ qin.op = "balanced_batches" /\ qout.raised = "none"
    /\ qin.split_keys = GroupsOf(<<3, 4>>) /\ qin.batch_size = 4
    /\ Len(qout.yielded) = 2
    /\ qout.yielded[2].keys = <<GroupKey(1, 3), GroupKey(2, 3)>>
    /\ BatchesOf(GroupKey(2, 4)) = {}

(***************************************************************************)
(* C28.  The first query_item after the construction of a CacheLastDataset *)
(* fetches from the inner dataset, for every key, None included, and what  *)
(* it returns is the item the inner dataset has for the key.  The code     *)
(* compares the key with the key of the initial slot (None, None): the     *)
(* key None is found there, nothing is fetched and None is returned.       *)
(***************************************************************************)
C28_FirstFetches ==
    ret.n = 1 /\ ret.op = "query_item"
        => /\ Len(trace) >= 1 /\ trace[1] = InnerCall(ret.key)
           /\ ret.raised = "none" => ret.value = DatasetQueryItem(inner, ret.key)
           /\ ret.raised = "none" <=> DatasetHas(inner, ret.key)

\* the same for the keys that are not None: this much holds
C28_FirstFetchesKeys ==
    ret.n = 1 /\ ret.op = "query_item" /\ ret.key # NoneKey
        => /\ Len(trace) >= 1 /\ trace[1] = InnerCall(ret.key)
           /\ ret.raised = "none" => ret.value = DatasetQueryItem(inner, ret.key)
           /\ ret.raised = "none" <=> DatasetHas(inner, ret.key)

\* the first call of an AugmentedDataset: the root key None raises TypeError
\* (None[n] at line 316), and no other key does
C28_AugmentedFirst ==
    ret.n = 1 /\ ret.op = "query_item"
        => (ret.raised = "TypeError" <=> RootKey(aug, ret.key) = NoneKey)

(***************************************************************************)
(* C30.  pickle_or_load with overwrite=True on a path that has a file,     *)
(* when the creation fails: the old file is removed before the file is     *)
(* opened for writing, the partial file is removed after the failure, the  *)
(* exception of the creation goes to the caller, who gets no store, and no *)
(* file is left at the path: the previous store is not preserved.          *)
(***************************************************************************)
C30_NotPreserved ==
    \A a \in ReconcileArgs :
        FreeSlots(1) /\ a.overwrite /\ fs[a.path].exists
        /\ create(a.dataset, a.keys).raised =>
            LET r == Result(Cur, a)
                log == r.out.log
            IN /\ r.out.raised = "create" /\ r.out.ret = 0
               /\ ~r.fs[a.path].exists
               /\ r.open_pickles[a.path] = 0
               /\ Logged(log, "remove") /\ Logged(log, "open_wb")
               /\ Logged(log, "create") /\ Logged(log, "remove_partial")
               /\ Position(log, "remove") < Position(log, "open_wb")
               /\ Position(log, "open_wb") < Position(log, "create")
               /\ Position(log, "create") < Position(log, "remove_partial")

\* a call with overwrite=True has removed a file that a store could read,
\* failed to create the new one, and left nothing at the path
C30_Witness ==
    /\ last.op = "pickle_or_load" /\ last.overwrite /\ last.existed
    /\ last.created /\ last.create_raised /\ last.raised = "create"
    /\ last.log = <<"close", "remove", "open_wb", "create", "remove_partial", "raise">>
    /\ ~fs[last.path].exists /\ last.ret = 0

RECURSIVE Fresh(_, _)
\* what a fresh evaluation of the name gives under the definitions
Fresh(dic, name) ==
    IF dic[name].kind = "none" THEN [ok |-> FALSE, value |-> 0]
    ELSE IF dic[name].kind = "const" THEN [ok |-> TRUE, value |-> dic[name].v]
    ELSE IF dic[name].kind = "ref" THEN Fresh(dic, dic[name].to)
    ELSE IF ~Fresh(dic, dic[name].cond).ok THEN [ok |-> FALSE, value |-> 0]
    ELSE IF Fresh(dic, dic[name].cond).value # 1 THEN [ok |-> TRUE, value |-> 0]
    ELSE Fresh(dic, dic[name].to)

RECURSIVE Needs(_, _)
\* the names the evaluation of the name requires, directly or through the
\* names it requires
Needs(dic, name) ==
    IF dic[name].kind \in {"none", "const"} THEN {}
    ELSE IF dic[name].kind = "ref"
    THEN {dic[name].to} \cup Needs(dic, dic[name].to)
    ELSE {dic[name].cond} \cup Needs(dic, dic[name].cond)
         \cup (IF Fresh(dic, dic[name].cond).ok /\ Fresh(dic, dic[name].cond).value = 1
               THEN {dic[name].to} \cup Needs(dic, dic[name].to)
               ELSE {})

\* a cached value is the value a fresh evaluation gives
Coherent ==
    \A n \in NameSet :
        environ.cache[n].set
            => /\ Fresh(environ.dic, n).ok
               /\ Fresh(environ.dic, n).value = environ.cache[n].value

\* an assignment or an update removes from the cache its keys and the names
\* whose evaluation required one of them, and nothing else
Invalidates ==
    ran'.op \in {"setitem", "update"}
        => \A n \in NameSet :
              environ'.cache[n] =
                  IF n \in ran'.keys
                     \/ (environ.cache[n].set
                         /\ Needs(environ.dic, n) \cap ran'.keys # {})
                  THEN NoCached ELSE environ.cache[n]

\* a run computes no name that is cached, computes no name twice, and keeps
\* what is cached
ReevaluatesRemoved ==
    ran'.op = "run"
        => /\ \A i \in 1..Len(ran'.evals) : ~environ.cache[ran'.evals[i]].set
           /\ \A i, j \in 1..Len(ran'.evals) : ran'.evals[i] = ran'.evals[j] => i = j
           /\ \A n \in NameSet : environ.cache[n].set => environ'.cache[n] = environ.cache[n]
           /\ ran'.raised = "none"
                 => /\ Fresh(environ.dic, ran'.name).ok
                    /\ ran'.value = Fresh(environ.dic, ran'.name).value
                    /\ \A n \in {ran'.name} \cup Needs(environ.dic, ran'.name) :
                          environ'.cache[n].set

(***************************************************************************)
(* C26.  Under run, item assignment and update: assigning env[k] (or an    *)
(* update with k) removes from the cache k and every cached name whose     *)
(* evaluation required k, directly or through other names, and keeps the   *)
(* cached value of every other name, the names k required among them; a    *)
(* run computes only names that are not cached; the names an evaluation    *)
(* requires are those of the evaluation that gave the cached value, so a   *)
(* name that a re-evaluation has not asked for does not invalidate the     *)
(* dependent any more.  The cache stays coherent with the definitions.     *)
(***************************************************************************)
C26_Invalidation == []Coherent /\ [][Invalidates /\ ReevaluatesRemoved]_vars

\* a is the Exec of "b if c == 1 else 0" and was evaluated with c = 2: the
\* assignment of b has removed b alone, a and c are still cached
C26_Witness ==
    /\ ran.op = "setitem" /\ ran.name = "b" /\ ran.removed = {"b"}
    /\ environ.dic["a"] = Exec("c", "b")
    /\ environ.cache["a"] = Cached(0) /\ environ.cache["c"] = Cached(2)

(***************************************************************************)
(* C29.  Under run, item assignment, update, del and pop, a name in the    *)
(* cache has the value a fresh evaluation under the current definitions    *)
(* gives, and after del env[k] or env.pop(k) no name that required k is    *)
(* cached.  The code removes the cached value of k alone (lines 486 and    *)
(* 490 do not call _clean): the names that required k stay cached.         *)
(***************************************************************************)
C29_Coherence ==
    /\ \A n \in NameSet :
          environ.cache[n].set
              => /\ Fresh(environ.dic, n).ok
                 /\ Fresh(environ.dic, n).value = environ.cache[n].value
    /\ ran.op \in {"delitem", "pop"} /\ ran.raised = "none"
          => \A n \in NameSet :
                environ.cache[n].set => ran.name \notin environ.requires[n]

RECURSIVE Enumerate(_, _)
\* the generator once next() has raised, or the enumeration continued
EnumerateOn(s) == IF s.raised # "none" THEN s.gen ELSE Enumerate(s.gen, s.obj)
\* list(generator): next() until it raises, with no other call in between
Enumerate(g, self) == EnumerateOn(GenNext(g, self, inner, <<>>))

\* the enumeration of list_keys() on a dataset just constructed: the keys
\* it yields, and how it ends
Uninterrupted == Enumerate(NewGenerator(inner), SetCache(aug, NoCache))

\* what query_item(key) gives on a dataset just constructed
AloneQuery(key) == AugQueryItem(SetCache(aug, NoCache), inner, <<>>, key)

(***************************************************************************)
(* C31.  The keys AugmentedDataset.list_keys() yields do not depend on     *)
(* the query_item calls made between the steps of its consumption: over    *)
(* an inner dataset without the key None, whatever calls of query_item are *)
(* interleaved, what the generator has yielded is a prefix of what an      *)
(* uninterrupted enumeration yields, the generator ends as the             *)
(* uninterrupted one does and then has yielded the same keys in the same   *)
(* order; and every query_item gives what it gives on a fresh dataset:     *)
(* the item augment produces for the derived key, or the same exception.   *)
(***************************************************************************)
C31_Interleaving ==
    ~DatasetHas(inner, NoneKey)
        => /\ IsPrefix(gen.yielded, Uninterrupted.yielded)
           /\ gen.state \in {"done", "raised"}
                 => /\ gen.state = Uninterrupted.state
                    /\ gen.yielded = Uninterrupted.yielded
           /\ ret.op = "next" /\ ret.raised = "none"
                 => ret.value = <<Uninterrupted.yielded[Len(gen.yielded)]>>
           /\ ret.op = "query_item"
                 => /\ ret.raised = AloneQuery(ret.key).raised
                    /\ ret.raised = "none"
                          => ret.value =
                                DictGet(augment(aug, RootKey(aug, ret.key),
                                                DatasetQueryItem(inner, RootKey(aug, ret.key))).items,
                                        ret.key)

\* next() gave (1, 0), query_item((2, 0)) replaced the cache by the items of
\* the root 2, and next() has given (1, 1) all the same
C31_Witness ==
    /\ Permuting /\ ret.n = 3 /\ ret.op = "next" /\ ret.raised = "none"
    /\ ret.value = <<<<1, 1>>>>
    /\ gen.yielded = <<<<1, 0>>, <<1, 1>>>>
    /\ aug.cache.root = 2 /\ run.mixed
    /\ Len(trace) = 4 /\ trace[3] = InnerCall(2)

=====================
